---- MODULE Spec2Model ----
(***************************************************************************)
(* A model of kudu/tools/ksck.cc: the checksum orchestrator                *)
(* (Ksck::ChecksumData, ChecksumResultReporter,                            *)
(* TabletServerChecksumCallbacks) and the metadata verifier                *)
(* (Ksck::CheckTablesConsistency, VerifyTable, VerifyTablet).              *)
(*                                                                         *)
(* Strings that the code matches against glob patterns (table names,       *)
(* tablet ids) are sequences of one-character strings.                     *)
(***************************************************************************)
EXTENDS Integers, Sequences, FiniteSets, TLC

\* Largest options.scan_concurrency explored (0..MaxConcurrency).
MaxConcurrency == 2
\* Checksums returned by a successful scan are 1..NumChecksums.
NumChecksums == 2

VARIABLES
  \* ---- the Ksck object and its cluster snapshot
  cluster,              \* [tables, tablet_servers]: KsckCluster after the fetch
  table_filters_,       \* Ksck::table_filters_
  tablet_id_filters_,   \* Ksck::tablet_id_filters_
  check_replica_count_, \* Ksck::check_replica_count_
  opts,                 \* the ChecksumOptions passed to ChecksumData
  \* ---- ChecksumData's frame (the main thread)
  pc,                   \* where the main thread is
  options,              \* the local copy of opts (snapshot_timestamp resolved)
  num_tablet_replicas,
  tablet_server_queues, \* ts uuid -> sequence of [schema, tablet_id]
  ts_order,             \* iteration order of the unordered_map tablet_server_queues
  shutdown,             \* uuids whose queue has been Shutdown()
  kick,                 \* [e, i]: position of the kick-off loops
  timed_out,
  checksums,            \* the copy returned by reporter->checksums()
  num_errors, num_mismatches, num_results,
  out,                  \* lines written to cout
  err,                  \* lines written through Error()
  status,               \* the Status ChecksumData returned
  fatal,                \* the CHECK / ...OrDie that aborted the process, or "none"
  \* ---- ChecksumResultReporter
  expected_count_,
  responses_,           \* the CountDownLatch's count
  lock_,                \* << >> when free, else the callback object holding it
  checksums_,           \* tablet_id -> (replica_uuid -> [ok, checksum])
  \* ---- TabletServerChecksumCallbacks objects; the one created by iteration i of
  \* the kick-off loop of tablet server u is named << u, i >>
  cbs,                  \* name -> [tablet_server, tablet_id, options_, st]
  \* ---- the tablet servers' side
  scans,                \* scans started and not yet Finished
  started,              \* bag of the RunTabletChecksumScanAsync calls made so far
  reported_late,        \* history: the pairs reported after WaitFor returned
                        \* false and before line 470 copied the map
  \* ---- CheckTablesConsistency's frame
  tables_checked,
  bad_tables_count,
  table_it,             \* index in cluster.tables of the table the loop is at
  consistency,          \* the Status CheckTablesConsistency returned
  lines,                \* lines written through Info(), Warn(), Error() and Out()
  tablet_calls,         \* history: the VerifyTablet calls made, in order
  prev_run,             \* history: the filters and the Status of the previous run
  \* ---- FetchInfoFromTabletServers' frame and its thread pool
  fetch_replica_info_concurrency, \* FLAGS_fetch_replica_info_concurrency
  fetch_order,          \* iteration order of cluster_->tablet_servers()
  fetch_it,             \* position of the submit loop in fetch_order
  pool,                 \* ts uuid -> state of the task submitted for it
  bad_servers,          \* the AtomicInt
  fetch_status,         \* the Status FetchInfoFromTabletServers returned
  fetch_calls,          \* history: ts uuid -> number of FetchInfo calls made
  \* ---- time, for the specification that runs WaitFor against a clock
  clock,                \* MonoTime::Now, in ticks
  waitfor,              \* WaitFor's frame: [start, deadline, until, result, count]
  done_at               \* history: the clock when responses_ reached 0, or -1

vars == << cluster, table_filters_, tablet_id_filters_, check_replica_count_, opts,
           pc, options, num_tablet_replicas, tablet_server_queues, ts_order,
           shutdown, kick, timed_out, checksums, num_errors, num_mismatches,
           num_results, out, err, status, fatal, expected_count_, responses_,
           lock_, checksums_, cbs, scans, started, reported_late,
           tables_checked, bad_tables_count, table_it, consistency, lines,
           tablet_calls, prev_run, fetch_replica_info_concurrency, fetch_order,
           fetch_it, pool, bad_servers, fetch_status, fetch_calls,
           clock, waitfor, done_at >>

clusterVars == << cluster, table_filters_, tablet_id_filters_, check_replica_count_, opts >>

mainVars == << pc, options, num_tablet_replicas, tablet_server_queues, ts_order,
               shutdown, kick, timed_out, checksums, num_errors, num_mismatches,
               num_results, out, err, status >>

reporterVars == << expected_count_, responses_, lock_, checksums_ >>

\* ChecksumData's state but for pc
checksumVars == << options, num_tablet_replicas, tablet_server_queues, ts_order,
                   shutdown, kick, timed_out, checksums, num_errors, num_mismatches,
                   num_results, out, err, status, reporterVars, cbs, scans, started,
                   reported_late >>

verifyVars == << tables_checked, bad_tables_count, table_it, consistency, lines,
                 tablet_calls, prev_run >>

fetchVars == << fetch_replica_info_concurrency, fetch_order, fetch_it, pool,
                bad_servers, fetch_status, fetch_calls >>

timeVars == << clock, waitfor, done_at >>

----------------------------------------------------------------------------
(* Generic helpers *)

Range(s) == { s[i] : i \in DOMAIN s }

\* All orders in which the elements of a finite set can be iterated.
Perms(S) ==
  { f \in [1..Cardinality(S) -> S] : \A i, j \in 1..Cardinality(S) : i # j => f[i] # f[j] }

MapPut(m, k, v) == [x \in DOMAIN m \cup {k} |-> IF x = k THEN v ELSE m[x]]

BagAdd(b, e) ==
  [x \in DOMAIN b \cup {e} |-> IF x = e THEN (IF e \in DOMAIN b THEN b[e] + 1 ELSE 1) ELSE b[x]]

RECURSIVE SumSeq(_)
SumSeq(s) == IF s = <<>> THEN 0 ELSE Head(s) + SumSeq(Tail(s))

RECURSIVE Flatten(_)
Flatten(ss) == IF ss = <<>> THEN <<>> ELSE Head(ss) \o Flatten(Tail(ss))

----------------------------------------------------------------------------
(* Status values: a code and the count its message carries *)

StatusOK == [code |-> "OK", n |-> 0]
StatusOf(c, k) == [code |-> c, n |-> k]
NoStatus == [code |-> "none", n |-> 0]

----------------------------------------------------------------------------
(* Filters *)

\* MatchPattern of gutil/strings/util: '*' matches any run of characters,
\* '?' one character, every other character itself.
RECURSIVE MatchPattern(_, _)
MatchPattern(str, p) ==
  IF p = <<>> THEN str = <<>>
  ELSE IF Head(p) = "*"
       THEN MatchPattern(str, Tail(p)) \/ (str # <<>> /\ MatchPattern(Tail(str), p))
       ELSE /\ str # <<>>
            /\ (Head(p) = "?" \/ Head(p) = Head(str))
            /\ MatchPattern(Tail(str), Tail(p))

MatchesAnyPattern(patterns, str) ==
  IF patterns = <<>> THEN TRUE
  ELSE \E k \in DOMAIN patterns : MatchPattern(str, patterns[k])

----------------------------------------------------------------------------
(* The cluster snapshot *)

UUIDs(c) == DOMAIN c.tablet_servers

is_healthy(ts) == ts.state = "FETCHED"

Replica(u, r) == [ts_uuid |-> u, role |-> r]

\* Indexes of the tablets of table tb that pass tablet_id_filters_, in order.
MatchingTablets(tb) ==
  SelectSeq([j \in 1..Len(tb.tablets) |-> j],
            LAMBDA j : MatchesAnyPattern(tablet_id_filters_, tb.tablets[j].id))

\* The tablets <<table index, tablet index>> that pass both filters, in
\* source order (the loops that fill tablet_table_map).
SelectedTablets ==
  Flatten([ti \in DOMAIN cluster.tables |->
    IF ~MatchesAnyPattern(table_filters_, cluster.tables[ti].name) THEN <<>>
    ELSE [k \in DOMAIN MatchingTablets(cluster.tables[ti]) |->
            << ti, MatchingTablets(cluster.tables[ti])[k] >>]])

TabletAt(p) == cluster.tables[p[1]].tablets[p[2]]

\* The (tablet_id, replica uuid) pairs of the filtered work set.
WorkSet ==
  UNION { { << TabletAt(p).id, TabletAt(p).replicas[k].ts_uuid >> :
              k \in DOMAIN TabletAt(p).replicas } : p \in Range(SelectedTablets) }

----------------------------------------------------------------------------
(* ChecksumResultReporter *)

\* The (tablet_id, replica_uuid) pairs a result map holds.
Pairs(m) == UNION { { << t, u >> : u \in DOMAIN m[t] } : t \in DOMAIN m }

\* The tablet's entry is replaced instead of looked up: earlier results of the
\* same tablet are lost.
InsertResult_Overwrite(m, tablet_id, replica_uuid, result) ==
  MapPut(m, tablet_id, MapPut(<<>>, replica_uuid, result))

\* LookupOrInsert(&checksums_, tablet_id, {}) followed by the insertion of
\* the replica's result.
InsertResult(m, tablet_id, replica_uuid, result) ==
  LET replica_results == IF tablet_id \in DOMAIN m THEN m[tablet_id] ELSE <<>>
  IN  MapPut(m, tablet_id, MapPut(replica_results, replica_uuid, result))

\* What a scan can report to Finished: a status and a checksum.
Outcomes ==
  { [ok |-> TRUE, checksum |-> c] : c \in 1..NumChecksums } \cup { [ok |-> FALSE, checksum |-> 0] }

----------------------------------------------------------------------------
(* Ksck::ChecksumData, work construction *)

QueueOf_OncePerTablet(u, tord) ==
  Flatten([x \in DOMAIN tord |->
    LET tb == cluster.tables[tord[x][1]]
        tablet == TabletAt(tord[x])
    IN  IF tablet.replicas # << >> /\ tablet.replicas[1].ts_uuid = u
        THEN << [schema |-> tb.name, tablet_id |-> tablet.id] >>
        ELSE <<>>])

\* The queue of tablet server u when tablet_table_map is iterated in the
\* order tord: one item per replica that u hosts.
QueueOf(u, tord) ==
  Flatten([x \in DOMAIN tord |->
    LET tb == cluster.tables[tord[x][1]]
        tablet == TabletAt(tord[x])
    IN  Flatten([k \in DOMAIN tablet.replicas |->
          IF tablet.replicas[k].ts_uuid = u
          THEN << [schema |-> tb.name, tablet_id |-> tablet.id] >>
          ELSE <<>>])])

ReplicaCount(sel) == SumSeq([x \in DOMAIN sel |-> Len(TabletAt(sel[x]).replicas)])

\* FindOrDie(cluster_->tablet_servers(), replica->ts_uuid()) succeeds for
\* every replica of the selected tablets.
AllServersKnown(sel) ==
  \A x \in DOMAIN sel : \A k \in DOMAIN TabletAt(sel[x]).replicas :
    TabletAt(sel[x]).replicas[k].ts_uuid \in UUIDs(cluster)

\* The tablet servers that get a queue.
QueueServers(sel) ==
  UNION { { TabletAt(sel[x]).replicas[k].ts_uuid : k \in DOMAIN TabletAt(sel[x]).replicas } :
          x \in DOMAIN sel }

\* Lines 380-428: copy the options, select the tablets, count their
\* replicas, return NotFound when there is none, else create the reporter
\* and fill one queue per tablet server.  tablet_table_map and
\* tablet_server_queues are unordered_maps keyed by pointers: their
\* iteration orders (tord, sord) are arbitrary.
BuildWork ==
  /\ pc = "start" /\ fatal = "none"
  /\ options' = opts
  /\ LET sel == SelectedTablets
         n == ReplicaCount(sel)
     IN  /\ num_tablet_replicas' = n
         /\ IF n = 0
            THEN /\ status' = StatusOf("NotFound", 0)
                 /\ pc' = "done"
                 /\ UNCHANGED << tablet_server_queues, ts_order, fatal, reporterVars >>
            ELSE IF ~AllServersKnown(sel)
            THEN /\ fatal' = "FindOrDie"
                 /\ UNCHANGED << status, pc, tablet_server_queues, ts_order, reporterVars >>
            ELSE /\ expected_count_' = n
                 /\ responses_' = n
                 /\ \E tord \in Perms(Range(sel)) :
                      tablet_server_queues' = [u \in QueueServers(sel) |-> QueueOf(u, tord)]
                 /\ \E sord \in Perms(QueueServers(sel)) : ts_order' = sord
                 /\ pc' = "resolve"
                 /\ UNCHANGED << status, fatal, lock_, checksums_ >>
  /\ UNCHANGED << clusterVars, verifyVars, fetchVars, timeVars, shutdown, kick, timed_out, checksums, num_errors,
                  num_mismatches, num_results, out, err, cbs, scans, started, reported_late >>

HealthyAt_Any == DOMAIN ts_order

\* Indexes into ts_order of the healthy tablet servers.
HealthyAt == { e \in DOMAIN ts_order : is_healthy(cluster.tablet_servers[ts_order[e]]) }

\* The first healthy tablet server in the iteration order of
\* tablet_server_queues (there is one).
FirstHealthy == ts_order[CHOOSE e \in HealthyAt : \A f \in HealthyAt : e <= f]

\* Lines 430-444: resolve the snapshot timestamp.
ResolveTimestamp ==
  /\ pc = "resolve" /\ fatal = "none"
  /\ IF options.use_snapshot /\ options.snapshot_timestamp = 0
     THEN LET ts == IF HealthyAt # {}
                    THEN cluster.tablet_servers[FirstHealthy].current_timestamp
                    ELSE options.snapshot_timestamp
          IN  IF ts = 0
              THEN /\ status' = StatusOf("ServiceUnavailable", 0)
                   /\ pc' = "done"
                   /\ UNCHANGED << options, err >>
              ELSE /\ options' = [options EXCEPT !.snapshot_timestamp = ts]
                   /\ err' = Append(err, << "INFO", "Using snapshot timestamp", ts >>)
                   /\ pc' = "kickoff"
                   /\ UNCHANGED status
     ELSE /\ pc' = "kickoff"
          /\ UNCHANGED << options, err, status >>
  /\ UNCHANGED << clusterVars, verifyVars, fetchVars, timeVars, num_tablet_replicas, tablet_server_queues, ts_order,
                  shutdown, kick, timed_out, checksums, num_errors, num_mismatches,
                  num_results, out, fatal, reporterVars, cbs, scans, started, reported_late >>

----------------------------------------------------------------------------
(* Starting scans *)

\* tablet_server->RunTabletChecksumScanAsync(tablet_id, schema, options, cb)
ScanOf(cb, u, item, o) ==
  [cb |-> cb, ts |-> u, tablet_id |-> item.tablet_id, schema |-> item.schema,
   snapshot_timestamp |-> o.snapshot_timestamp]

RunCall(u, item, o) ==
  [ts |-> u, tablet_id |-> item.tablet_id, schema |-> item.schema,
   snapshot_timestamp |-> o.snapshot_timestamp]

\* An off-by-one in the kick-off loop: "i <= options.scan_concurrency".
KickoffMore_OffByOne(i) == i <= options.scan_concurrency

\* The condition of the loop "for (int i = 0; i < options.scan_concurrency; i++)".
KickoffMore(i) == i < options.scan_concurrency

\* Lines 449-464, one iteration of the inner loop (or its exit) per step:
\* the queue of the current tablet server is shut down, then up to
\* scan_concurrency items are popped, each given a new callback object and
\* started.
KickoffStep ==
  /\ pc = "kickoff" /\ fatal = "none"
  /\ LET u == ts_order[kick.e]
         queue == tablet_server_queues[u]
     IN  /\ shutdown' = shutdown \cup {u}
         /\ IF KickoffMore(kick.i)
            THEN /\ kick' = [kick EXCEPT !.i = kick.i + 1]
                 /\ pc' = pc
                 /\ IF queue # <<>>
                    THEN /\ tablet_server_queues' = [tablet_server_queues EXCEPT ![u] = Tail(queue)]
                         /\ cbs' = MapPut(cbs, << u, kick.i >>,
                                          [tablet_server |-> u,
                                           tablet_id |-> Head(queue).tablet_id,
                                           options_ |-> options,
                                           st |-> "scan"])
                         /\ scans' = scans \cup { ScanOf(<< u, kick.i >>, u, Head(queue), options) }
                         /\ started' = BagAdd(started, RunCall(u, Head(queue), options))
                    ELSE UNCHANGED << tablet_server_queues, cbs, scans, started >>
            ELSE /\ kick' = [e |-> kick.e + 1, i |-> 0]
                 /\ pc' = IF kick.e = Len(ts_order) THEN "WaitFor_check" ELSE pc
                 /\ UNCHANGED << tablet_server_queues, cbs, scans, started >>
  /\ UNCHANGED << clusterVars, verifyVars, fetchVars, timeVars, options, num_tablet_replicas, ts_order, timed_out,
                  checksums, num_errors, num_mismatches, num_results, out, err, status,
                  fatal, reporterVars, reported_late >>

----------------------------------------------------------------------------
(* TabletServerChecksumCallbacks::Finished, run by a thread of the RPC layer *)

\* The scan of callback object c ends and Finished is invoked: ReportResult
\* takes lock_ and inserts the result (InsertOrDie).
\* ReportResult inserts without taking lock_.
LockFree_Unguarded == TRUE

\* std::lock_guard<simple_spinlock> guard(lock_): the caller spins until no
\* other thread holds lock_.
LockFree == lock_ = << >>

FinishedInsert(c) ==
  /\ fatal = "none"
  /\ cbs[c].st = "scan"
  /\ \E s \in scans : s.cb = c
  /\ LockFree
  /\ scans' = { s \in scans : s.cb # c }
  /\ LET tablet_id == cbs[c].tablet_id
         replica_uuid == cbs[c].tablet_server
     IN  IF tablet_id \in DOMAIN checksums_ /\ replica_uuid \in DOMAIN checksums_[tablet_id]
         THEN /\ fatal' = "InsertOrDie"
              /\ UNCHANGED << checksums_, lock_, cbs >>
         ELSE /\ \E r \in Outcomes :
                   checksums_' = InsertResult(checksums_, tablet_id, replica_uuid, r)
              /\ lock_' = c
              /\ cbs' = [cbs EXCEPT ![c].st = "locked"]
              /\ UNCHANGED fatal
  /\ reported_late' = IF timed_out /\ pc = "copy"
                        THEN reported_late \cup { << cbs[c].tablet_id, cbs[c].tablet_server >> }
                        ELSE reported_late
  /\ UNCHANGED << clusterVars, verifyVars, fetchVars, timeVars, mainVars, expected_count_, responses_, started >>

\* responses_.CountDown() and the release of lock_.
FinishedCountDown(c) ==
  /\ fatal = "none"
  /\ cbs[c].st = "locked" /\ lock_ = c
  /\ responses_' = IF responses_ > 0 THEN responses_ - 1 ELSE 0
  /\ lock_' = << >>
  /\ cbs' = [cbs EXCEPT ![c].st = "reported"]
  /\ done_at' = IF responses_ = 1 THEN clock ELSE done_at
  /\ UNCHANGED << clusterVars, verifyVars, fetchVars, mainVars, fatal, expected_count_, checksums_, scans,
                  started, reported_late, clock, waitfor >>

ChainOptions_Original(c) == opts

\* The options a chained scan is started with: the callback's options_.
ChainOptions(c) == cbs[c].options_

\* queue_->BlockingGet: pops the next item of the callback's own tablet
\* server and starts its scan with the same callback object, or, the queue
\* being empty and shut down, "delete this".  On an empty queue that is not
\* shut down BlockingGet blocks.
\* Every callback is given the queue of another tablet server.
queue__OfAnotherServer(c) ==
  CHOOSE u \in DOMAIN tablet_server_queues :
    \/ u # cbs[c].tablet_server
    \/ DOMAIN tablet_server_queues = { cbs[c].tablet_server }

\* Lines 457-458: the callback object is constructed with the tablet server
\* of the queue map's entry and that entry's queue, so queue_ is the queue
\* of tablet_server_.
queue_(c) == cbs[c].tablet_server

\* Finished never finds an item: the callback object is deleted after its
\* first scan.
FinishedGets_Never(queue) == FALSE

\* Finished chains the next item only until WaitFor has timed out.
FinishedGets_UntilTimedOut(queue) == queue # <<>> /\ ~timed_out

\* Line 359: if (queue_->BlockingGet(&table_tablet)), true when the queue
\* holds an item.
FinishedGets(queue) == queue # <<>>

FinishedNext(c) ==
  /\ fatal = "none"
  /\ cbs[c].st = "reported"
  /\ LET u == cbs[c].tablet_server
         queue == tablet_server_queues[queue_(c)]
     IN  IF FinishedGets(queue)
         THEN /\ tablet_server_queues' = [tablet_server_queues EXCEPT ![queue_(c)] = Tail(queue)]
              /\ cbs' = [cbs EXCEPT ![c].tablet_id = Head(queue).tablet_id, ![c].st = "scan"]
              /\ scans' = scans \cup { ScanOf(c, u, Head(queue), ChainOptions(c)) }
              /\ started' = BagAdd(started, RunCall(u, Head(queue), ChainOptions(c)))
         ELSE /\ queue_(c) \in shutdown
              /\ cbs' = [cbs EXCEPT ![c].st = "deleted"]
              /\ UNCHANGED << tablet_server_queues, scans, started >>
  /\ UNCHANGED << clusterVars, verifyVars, fetchVars, timeVars, pc, options, num_tablet_replicas, ts_order, shutdown, kick,
                  timed_out, checksums, num_errors, num_mismatches, num_results, out,
                  err, status, fatal, reporterVars, reported_late >>

----------------------------------------------------------------------------
(* ChecksumResultReporter::WaitFor, run by the main thread *)

\* Lines 287-289: "if (rem_ms <= 0) return false" (and line 467), the
\* deadline start + timeout having passed.  A timeout that is not positive
\* has passed at the first test.
WaitForExpired ==
  /\ pc = "WaitFor_check" /\ fatal = "none"
  /\ timed_out' = TRUE
  /\ pc' = "copy"
  /\ UNCHANGED << clusterVars, verifyVars, fetchVars, timeVars, options, num_tablet_replicas, tablet_server_queues, ts_order,
                  shutdown, kick, checksums, num_errors, num_mismatches, num_results, out,
                  err, status, fatal, reporterVars, cbs, scans, started, reported_late >>

\* Lines 287-289 with time remaining: on to the latch.
WaitForRemaining ==
  /\ pc = "WaitFor_check" /\ fatal = "none"
  /\ pc' = "WaitFor_latch"
  /\ UNCHANGED << clusterVars, verifyVars, fetchVars, timeVars, options, num_tablet_replicas, tablet_server_queues, ts_order,
                  shutdown, kick, timed_out, checksums, num_errors, num_mismatches,
                  num_results, out, err, status, fatal, reporterVars, cbs, scans, started, reported_late >>

\* The latch reports completion one response early.
LatchDone_OneEarly == responses_ <= 1

\* The latch's WaitFor reports the count at 0.
LatchDone == responses_ = 0

\* Line 291: responses_.WaitFor(min(rem_ms, 5000)) returns true when the
\* count is 0, and false when its wait ends with results outstanding; the
\* progress line follows either.
WaitForLatch ==
  /\ pc = "WaitFor_latch" /\ fatal = "none"
  /\ IF LatchDone
     THEN /\ pc' = "copy"
          /\ err' = Append(err, << "INFO", "Checksum finished", responses_, expected_count_ >>)
     ELSE /\ pc' = "WaitFor_check"
          /\ UNCHANGED err
  /\ UNCHANGED << clusterVars, verifyVars, fetchVars, timeVars, options, num_tablet_replicas, tablet_server_queues, ts_order,
                  shutdown, kick, timed_out, checksums, num_errors, num_mismatches,
                  num_results, out, status, fatal, reporterVars, cbs, scans, started, reported_late >>

----------------------------------------------------------------------------
(* Ksck::ChecksumData, result classification (lines 472-531) *)

\* The orders in which the replica results of each tablet can be iterated
\* (each inner map is an unordered_map).
IterOrders(m) ==
  { f \in [DOMAIN m -> UNION { Perms(DOMAIN m[t]) : t \in DOMAIN m }] :
      \A t \in DOMAIN m : f[t] \in Perms(DOMAIN m[t]) }

Acc0 ==
  [num_errors |-> 0, num_mismatches |-> 0, num_results |-> 0, out |-> <<>>, err |-> <<>>,
   printed_table_name |-> FALSE, seen_first_replica |-> FALSE, first_checksum |-> 0]

\* The reference checksum follows the last successful replica instead of
\* staying the first one's.
ClassifyReplica_LastAsReference(table, tablet, u, r, acc) ==
  LET line == << "T", tablet.id, u, cluster.tablet_servers[u].address,
                 IF r.ok THEN "Checksum" ELSE "Error", r.checksum >>
      a1 == [acc EXCEPT !.out = Append(@, line)]
      a2 == IF ~r.ok
            THEN [a1 EXCEPT !.num_errors = @ + 1]
            ELSE IF ~a1.seen_first_replica
            THEN [a1 EXCEPT !.seen_first_replica = TRUE, !.first_checksum = r.checksum]
            ELSE IF r.checksum # a1.first_checksum
            THEN [a1 EXCEPT !.num_mismatches = @ + 1, !.first_checksum = r.checksum,
                            !.err = Append(@, << "ERROR", "Mismatch found", table.name, tablet.id >>)]
            ELSE a1
  IN  [a2 EXCEPT !.num_results = @ + 1]

\* The first replica iterated becomes the reference even when its scan failed.
ClassifyReplica_FailedAsReference(table, tablet, u, r, acc) ==
  LET line == << "T", tablet.id, u, cluster.tablet_servers[u].address,
                 IF r.ok THEN "Checksum" ELSE "Error", r.checksum >>
      a1 == [acc EXCEPT !.out = Append(@, line)]
      a2 == IF ~a1.seen_first_replica
            THEN [a1 EXCEPT !.seen_first_replica = TRUE, !.first_checksum = r.checksum,
                            !.num_errors = IF r.ok THEN @ ELSE @ + 1]
            ELSE IF ~r.ok
            THEN [a1 EXCEPT !.num_errors = @ + 1]
            ELSE IF r.checksum # a1.first_checksum
            THEN [a1 EXCEPT !.num_mismatches = @ + 1,
                            !.err = Append(@, << "ERROR", "Mismatch found", table.name, tablet.id >>)]
            ELSE a1
  IN  [a2 EXCEPT !.num_results = @ + 1]

\* Lines 490-510: one replica result r of server u.
ClassifyReplica(table, tablet, u, r, acc) ==
  LET line == << "T", tablet.id, u, cluster.tablet_servers[u].address,
                 IF r.ok THEN "Checksum" ELSE "Error", r.checksum >>
      a1 == [acc EXCEPT !.out = Append(@, line)]
      a2 == IF ~r.ok
            THEN [a1 EXCEPT !.num_errors = @ + 1]
            ELSE IF ~a1.seen_first_replica
            THEN [a1 EXCEPT !.seen_first_replica = TRUE, !.first_checksum = r.checksum]
            ELSE IF r.checksum # a1.first_checksum
            THEN [a1 EXCEPT !.num_mismatches = @ + 1,
                            !.err = Append(@, << "ERROR", "Mismatch found", table.name, tablet.id >>)]
            ELSE a1
  IN  [a2 EXCEPT !.num_results = @ + 1]

RECURSIVE ClassifyReplicas(_, _, _, _, _)
ClassifyReplicas(m, table, tablet, order, acc) ==
  IF order = <<>> THEN acc
  ELSE ClassifyReplicas(m, table, tablet, Tail(order),
         ClassifyReplica(table, tablet, Head(order), m[tablet.id][Head(order)], acc))

\* Lines 477-513: the tablets of one table, from tablet j on.
RECURSIVE ClassifyTablets(_, _, _, _, _)
ClassifyTablets(m, iter, table, j, acc) ==
  IF j > Len(table.tablets) THEN acc
  ELSE LET tablet == table.tablets[j] IN
       IF tablet.id \in DOMAIN m
       THEN LET a1 == IF acc.printed_table_name THEN acc
                      ELSE [acc EXCEPT !.printed_table_name = TRUE,
                                       !.out = Append(@, << "table", table.name >>)]
                a2 == [a1 EXCEPT !.seen_first_replica = FALSE, !.first_checksum = 0]
            IN  ClassifyTablets(m, iter, table, j + 1,
                  ClassifyReplicas(m, table, tablet, iter[tablet.id], a2))
       ELSE ClassifyTablets(m, iter, table, j + 1, acc)

\* The tables are walked from the last to the first.
TableAt_Reversed(ti) == cluster.tables[Len(cluster.tables) - ti + 1]

\* Line 475: the ti-th table the loop over cluster_->tables() visits.
TableAt(ti) == cluster.tables[ti]

\* Lines 475-515: all the tables of the cluster, from table ti on.
RECURSIVE ClassifyTables(_, _, _, _)
ClassifyTables(m, iter, ti, acc) ==
  IF ti > Len(cluster.tables) THEN acc
  ELSE LET a1 == ClassifyTablets(m, iter, TableAt(ti), 1,
                                 [acc EXCEPT !.printed_table_name = FALSE])
           a2 == IF a1.printed_table_name THEN [a1 EXCEPT !.out = Append(@, << "" >>)] ELSE a1
       IN  ClassifyTables(m, iter, ti + 1, a2)

\* The tests of lines 524 and 527 swapped: failed scans win over mismatches.
FinalStatus_ErrorsFirst(nresults, nmismatches, nerrors, expected) ==
  IF nresults # expected THEN StatusOf("TimedOut", nresults)
  ELSE IF nerrors # 0 THEN StatusOf("Aborted", nerrors)
  ELSE IF nmismatches # 0 THEN StatusOf("Corruption", nmismatches)
  ELSE StatusOK

\* TimedOut decided by the flag instead of by the count of results.
FinalStatus_ByFlag(nresults, nmismatches, nerrors, expected) ==
  IF nresults # expected \/ timed_out THEN StatusOf("TimedOut", nresults)
  ELSE IF nmismatches # 0 THEN StatusOf("Corruption", nmismatches)
  ELSE IF nerrors # 0 THEN StatusOf("Aborted", nerrors)
  ELSE StatusOK

\* Lines 516-531: the status returned once the results are counted.
FinalStatus(nresults, nmismatches, nerrors, expected) ==
  IF nresults # expected THEN StatusOf("TimedOut", nresults)
  ELSE IF nmismatches # 0 THEN StatusOf("Corruption", nmismatches)
  ELSE IF nerrors # 0 THEN StatusOf("Aborted", nerrors)
  ELSE StatusOK

\* Line 470: what reporter->checksums() returns, a copy of the map.
ChecksumsCopy == checksums_

\* Lines 470-531: copy the reporter's map under lock_, then walk the tables
\* and count; everything after the copy is local to the main thread.
Classify ==
  /\ pc = "copy" /\ fatal = "none"
  /\ lock_ = << >>
  /\ checksums' = ChecksumsCopy
  /\ \E iter \in IterOrders(checksums') :
       LET acc == ClassifyTables(checksums', iter, 1, Acc0) IN
       /\ num_errors' = acc.num_errors
       /\ num_mismatches' = acc.num_mismatches
       /\ num_results' = acc.num_results
       /\ out' = out \o acc.out
       /\ err' = err \o acc.err
       /\ IF acc.num_results # num_tablet_replicas /\ ~timed_out
          THEN /\ fatal' = "CHECK(timed_out)"
               /\ UNCHANGED << status, pc >>
          ELSE /\ status' = FinalStatus(acc.num_results, acc.num_mismatches, acc.num_errors,
                                        num_tablet_replicas)
               /\ pc' = "done"
               /\ UNCHANGED fatal
  \* The frame's map tablet_server_queues goes out of scope at the return;
  \* the queues themselves live on in the callback objects that share them.
  /\ ts_order' = IF pc' = "done" THEN <<>> ELSE ts_order
  /\ UNCHANGED << clusterVars, verifyVars, fetchVars, timeVars, options, num_tablet_replicas, tablet_server_queues,
                  shutdown, kick, timed_out, reporterVars, cbs, scans, started, reported_late >>

----------------------------------------------------------------------------
(* The cluster the checksum phase runs on *)

Name(a, b) == << a, b >>

Server(addr, ts) ==
  [state |-> "FETCHED", address |-> addr, current_timestamp |-> ts, tablet_status_map |-> <<>>]

Servers(U) ==
  [u \in U |-> Server("h" \o u, CASE u = "u1" -> 11 [] u = "u2" -> 12 [] OTHER -> 13)]

\* Two tables; tablet server u1 hosts two of the three replicas.
ClusterTwoTables ==
  [tables |-> <<
     [name |-> Name("t", "1"), num_replicas |-> 2, tablets |-> <<
        [id |-> Name("a", "1"), replicas |-> << Replica("u1", "LEADER"),
                                                Replica("u2", "FOLLOWER") >>] >>],
     [name |-> Name("t", "2"), num_replicas |-> 1, tablets |-> <<
        [id |-> Name("b", "1"), replicas |-> << Replica("u1", "LEADER") >>] >>] >>,
   tablet_servers |-> Servers({"u1", "u2"})]

\* One tablet with three replicas.
ClusterThreeReplicas ==
  [tables |-> <<
     [name |-> Name("t", "1"), num_replicas |-> 3, tablets |-> <<
        [id |-> Name("a", "1"), replicas |-> << Replica("u1", "LEADER"),
                                                Replica("u2", "FOLLOWER"),
                                                Replica("u3", "FOLLOWER") >>] >>] >>,
   tablet_servers |-> Servers({"u1", "u2", "u3"})]

ChecksumClusters == { ClusterTwoTables, ClusterThreeReplicas }

NoRun ==
  [table_filters |-> << >>, tablet_id_filters |-> << >>, status |-> NoStatus, bad |-> {}]

\* DEFINE_int32(fetch_replica_info_concurrency, 20, ...)
fetch_replica_info_concurrency_default == 20

\* WaitFor has not been entered.
NoWait == [start |-> -1, deadline |-> -1, until |-> -1, result |-> "none", count |-> -1]

\* A Ksck over cluster snapshot c about to run the phase that starts at
\* position start, with FLAGS_fetch_replica_info_concurrency = conc.
InitKsckWith(c, tf, tif, crc, o, start, conc) ==
  /\ cluster = c
  /\ table_filters_ = tf
  /\ tablet_id_filters_ = tif
  /\ check_replica_count_ = crc
  /\ opts = o
  /\ pc = start
  /\ options = o
  /\ num_tablet_replicas = 0
  /\ tablet_server_queues = <<>>
  /\ ts_order = <<>>
  /\ shutdown = {}
  /\ kick = [e |-> 1, i |-> 0]
  /\ timed_out = FALSE
  /\ checksums = <<>>
  /\ num_errors = 0 /\ num_mismatches = 0 /\ num_results = 0
  /\ out = <<>> /\ err = <<>>
  /\ status = NoStatus
  /\ fatal = "none"
  /\ expected_count_ = 0
  /\ responses_ = 0
  /\ lock_ = << >>
  /\ checksums_ = <<>>
  /\ cbs = <<>>
  /\ scans = {}
  /\ started = <<>>
  /\ reported_late = {}
  /\ tables_checked = 0
  /\ bad_tables_count = 0
  /\ table_it = 1
  /\ consistency = NoStatus
  /\ lines = << >>
  /\ tablet_calls = << >>
  /\ prev_run = NoRun
  /\ fetch_replica_info_concurrency = conc
  /\ fetch_order = << >>
  /\ fetch_it = 1
  /\ pool = << >>
  /\ bad_servers = 0
  /\ fetch_status = NoStatus
  /\ fetch_calls = << >>
  /\ clock = 0
  /\ waitfor = NoWait
  /\ done_at = -1

InitKsck(c, tf, tif, crc, o, start) ==
  InitKsckWith(c, tf, tif, crc, o, start, fetch_replica_info_concurrency_default)

InitChecksum(c, tf, tif, o) == InitKsck(c, tf, tif, TRUE, o, "start")

Init ==
  \E c \in ChecksumClusters, conc \in 0..MaxConcurrency :
    InitChecksum(c, <<>>, <<>>,
                 [scan_concurrency |-> conc, use_snapshot |-> TRUE, snapshot_timestamp |-> 0])

Next ==
  \/ BuildWork
  \/ ResolveTimestamp
  \/ KickoffStep
  \/ \E c \in DOMAIN cbs : FinishedInsert(c)
  \/ \E c \in DOMAIN cbs : FinishedCountDown(c)
  \/ \E c \in DOMAIN cbs : FinishedNext(c)
  \/ WaitForExpired
  \/ WaitForRemaining
  \/ WaitForLatch
  \/ Classify

Spec == Init /\ [][Next]_vars

----------------------------------------------------------------------------
(* Properties of the checksum phase *)

\* Scans started on tablet server u and not yet Finished.
InFlight(u) == Cardinality({ s \in scans : s.ts = u })

\* RunTabletChecksumScanAsync calls made on tablet server u so far.
StartedOn(u) ==
  LET calls == { x \in DOMAIN started : x.ts = u }
      RECURSIVE sum(_)
      sum(S) == IF S = {} THEN 0
                ELSE LET x == CHOOSE y \in S : TRUE IN started[x] + sum(S \ {x})
  IN  sum(calls)

\* WaitFor has returned and ChecksumData is at or past line 470.
WaitForReturned ==
  \/ pc = "copy"
  \/ pc = "done" /\ status.code \in {"OK", "Corruption", "Aborted", "TimedOut"}

\* ChecksumData has classified the results and returned.
Classified == pc = "done" /\ status.code \in {"OK", "Corruption", "Aborted", "TimedOut"}

\* C1: on every tablet server, at every point of ChecksumData's execution and
\* of the callbacks that follow it, the number of scans started and not yet
\* Finished is at most options.scan_concurrency.
C1_ConcurrencyCap ==
  \A u \in UUIDs(cluster) : InFlight(u) <= opts.scan_concurrency

\* A tablet server that runs as many scans as allowed, one of them chained
\* from a Finished callback, with work still queued elsewhere or done.
C1_Witness ==
  \E u \in UUIDs(cluster) :
    /\ opts.scan_concurrency >= 1
    /\ InFlight(u) = opts.scan_concurrency
    /\ StartedOn(u) > opts.scan_concurrency

\* Every started scan has invoked Finished and its report has completed,
\* and nothing is left to start.
AllFinished ==
  /\ opts.scan_concurrency >= 1
  /\ scans = {}
  /\ \A u \in DOMAIN tablet_server_queues : tablet_server_queues[u] = <<>>
  /\ \A c \in DOMAIN cbs : cbs[c].st \in {"reported", "deleted"}

\* C2: if every scan has finished when WaitFor returns (in particular
\* whenever WaitFor returns true), the reporter's map holds exactly the
\* (tablet_id, replica uuid) pairs of the filtered work set, as many as
\* num_tablet_replicas, and no pair was reported twice.
C2_Completeness ==
  /\ fatal # "InsertOrDie"
  /\ (WaitForReturned /\ (~timed_out \/ AllFinished)) =>
       /\ Pairs(checksums_) = WorkSet
       /\ Cardinality(Pairs(checksums_)) = num_tablet_replicas
       /\ responses_ = 0
  /\ (Classified /\ ~timed_out) => Pairs(checksums) = WorkSet

\* WaitFor has returned true after tail chaining on a tablet server with
\* more work than scan_concurrency.
C2_Witness ==
  /\ pc = "copy" /\ ~timed_out
  /\ opts.scan_concurrency = 1
  /\ \E u \in UUIDs(cluster) : StartedOn(u) > 1
  /\ Pairs(checksums_) = WorkSet

\* The three replicas of the tablet all succeeded, two with one checksum and
\* the third with another.
ThreeAAB(m, t) ==
  /\ t \in DOMAIN m
  /\ Cardinality(DOMAIN m[t]) = 3
  /\ \A u \in DOMAIN m[t] : m[t][u].ok
  /\ Cardinality({ m[t][u].checksum : u \in DOMAIN m[t] }) = 2

\* The checksum shared by two of the three replicas.
MajorityChecksum(m, t) ==
  CHOOSE c \in { m[t][u].checksum : u \in DOMAIN m[t] } :
    Cardinality({ u \in DOMAIN m[t] : m[t][u].checksum = c }) = 2

\* The checksum on the first result line printed for a tablet.
FirstPrinted(t) ==
  LET k == CHOOSE i \in DOMAIN out :
             /\ out[i][1] = "T" /\ out[i][2] = t
             /\ \A j \in DOMAIN out : (out[j][1] = "T" /\ out[j][2] = t) => i <= j
  IN  out[k][6]

\* C3 as stated: with results (A, A, B), in any iteration order, exactly one
\* mismatch is counted and the status is Corruption.
C3_Original ==
  (Classified /\ cluster = ClusterThreeReplicas /\ ThreeAAB(checksums, Name("a", "1"))) =>
    /\ num_mismatches = 1
    /\ status = StatusOf("Corruption", 1)

\* C3, amended: with results (A, A, B) the status is Corruption and carries
\* num_mismatches, which is 1 when the first replica iterated holds A and 2
\* when it holds B.
C3_Amended ==
  (Classified /\ cluster = ClusterThreeReplicas /\ ThreeAAB(checksums, Name("a", "1"))) =>
    /\ status = StatusOf("Corruption", num_mismatches)
    /\ num_mismatches =
         IF FirstPrinted(Name("a", "1")) = MajorityChecksum(checksums, Name("a", "1"))
         THEN 1 ELSE 2

\* Results (A, A, B) iterated with B first: two mismatches.
C3_Witness ==
  /\ Classified /\ cluster = ClusterThreeReplicas
  /\ ThreeAAB(checksums, Name("a", "1"))
  /\ FirstPrinted(Name("a", "1")) # MajorityChecksum(checksums, Name("a", "1"))
  /\ num_mismatches = 2

\* Fewer results than replicas to scan.
ResultsMissing(m) == Cardinality(Pairs(m)) # num_tablet_replicas

\* Two successful replicas of one tablet disagree.
HasMismatch(m) ==
  \E t \in DOMAIN m : \E u, v \in DOMAIN m[t] :
    m[t][u].ok /\ m[t][v].ok /\ m[t][u].checksum # m[t][v].checksum

\* The scans that failed.
Failed(m) == { p \in Pairs(m) : ~m[p[1]][p[2]].ok }

\* C4: the status follows the precedence TimedOut, Corruption, Aborted, OK:
\* TimedOut when results are missing, whatever the received ones are; else
\* Corruption(num_mismatches) when two successful replicas of a tablet
\* disagree, even if scans failed; else Aborted(number of failed scans) when
\* a scan failed; else OK.
C4_Precedence ==
  Classified =>
    /\ status.code = IF ResultsMissing(checksums) THEN "TimedOut"
                     ELSE IF HasMismatch(checksums) THEN "Corruption"
                     ELSE IF Failed(checksums) # {} THEN "Aborted"
                     ELSE "OK"
    /\ status.code = "Corruption" => status.n = num_mismatches /\ status.n >= 1
    /\ status.code = "Aborted" => status.n = Cardinality(Failed(checksums))
    /\ status.code = "OK" => status.n = 0

\* All results are in, one scan failed and the two others disagree:
\* Corruption wins over Aborted.
C4_Witness ==
  /\ Classified
  /\ ~ResultsMissing(checksums)
  /\ HasMismatch(checksums) /\ Failed(checksums) # {}
  /\ status.code = "Corruption"

\* C5 as stated: once WaitFor has returned false the status is TimedOut, and
\* no result reported after that return is among the results classified.
C5_Original ==
  (Classified /\ timed_out) =>
    /\ status.code = "TimedOut"
    /\ Pairs(checksums) \cap reported_late = {}

\* C5, amended: once WaitFor has returned false, the status is TimedOut iff
\* results are still missing from the copy that line 470 takes; the results
\* reported between that return and the copy are part of the copy; the
\* results reported after the copy are discarded: the copy, the counts, the
\* output and the status no longer change.
C5_Amended ==
  [][ /\ (pc' = "done" /\ status'.code \in {"OK", "Corruption", "Aborted", "TimedOut"}
            /\ timed_out') =>
           /\ status'.code = "TimedOut" <=> ResultsMissing(checksums')
           /\ reported_late' \subseteq Pairs(checksums')
      /\ pc = "done" =>
           /\ checksums' = checksums /\ status' = status /\ out' = out /\ err' = err
           /\ num_results' = num_results /\ num_errors' = num_errors
           /\ num_mismatches' = num_mismatches ]_vars

\* ChecksumData returned TimedOut and a result reported since is held by the
\* reporter but is not among the results classified.
C5_Witness ==
  /\ Classified /\ timed_out
  /\ status.code = "TimedOut"
  /\ Pairs(checksums_) # Pairs(checksums)
  /\ Pairs(checksums) # {}

\* C6: the classification never counts more results than num_tablet_replicas,
\* counts fewer only if WaitFor timed out, and the CHECK(timed_out) of line
\* 517 never fails.
C6_ResultCount ==
  /\ fatal # "CHECK(timed_out)"
  /\ Classified =>
       /\ num_results <= num_tablet_replicas
       /\ num_results < num_tablet_replicas => timed_out
       /\ num_results = Cardinality(Pairs(checksums))

\* A timed out run that classified some results, but not all.
C6_Witness ==
  /\ Classified /\ timed_out
  /\ 0 < num_results /\ num_results < num_tablet_replicas

\* The run of ChecksumData that receives the results m and iterates every
\* tablet's results in one fixed order.
ReferenceRun(m) ==
  LET acc == ClassifyTables(m, CHOOSE f \in IterOrders(m) : TRUE, 1, Acc0)
  IN  [status |-> FinalStatus(acc.num_results, acc.num_mismatches, acc.num_errors,
                              num_tablet_replicas),
       lines |-> Range(acc.out)]

\* C7 as stated: whatever the order in which the results arrived and are
\* iterated, the status (kind and count) and the set of lines printed are
\* those of any other run with the same results.
C7_Original ==
  Classified =>
    /\ status = ReferenceRun(checksums).status
    /\ Range(out) = ReferenceRun(checksums).lines

\* C7, amended: the kind of the status and the set of lines printed do not
\* depend on the order; nor does the count carried by TimedOut, Aborted and
\* OK.  The count carried by Corruption depends on the iteration order.
C7_Amended ==
  Classified =>
    /\ status.code = ReferenceRun(checksums).status.code
    /\ status.code # "Corruption" => status = ReferenceRun(checksums).status
    /\ Range(out) = ReferenceRun(checksums).lines

\* A run that iterated a tablet in another order than the reference run and
\* counted another number of mismatches.
C7_Witness ==
  /\ Classified
  /\ status.code = "Corruption"
  /\ status.n # ReferenceRun(checksums).status.n
  /\ Range(out) = ReferenceRun(checksums).lines

----------------------------------------------------------------------------
(* The metadata verifier: Ksck::CheckTablesConsistency, VerifyTable and    *)
(* VerifyTablet.  A message is its format string, the strings substituted  *)
(* into it and the numbers substituted into it.                            *)

Msg(text, strs, nums) == [text |-> text, strs |-> strs, nums |-> nums]

Line(level, m) == [level |-> level, m |-> m]

is_leader(replica) == replica.role = "LEADER"

is_follower(replica) == replica.role = "FOLLOWER"

MajoritySize(num_voters) == (num_voters \div 2) + 1

\* "CHECK" stands for the failure of CHECK_EQ(state_, kFetched).
ReplicaState(ts, tablet_id) ==
  IF ts.state # "FETCHED" THEN "CHECK"
  ELSE IF tablet_id \notin DOMAIN ts.tablet_status_map THEN "UNKNOWN"
  ELSE ts.tablet_status_map[tablet_id].state

\* KsckTabletServer::ToString() of the server registered under uuid u.
TSToString(u) == << u, cluster.tablet_servers[u].address >>

\* tablet->table(): the table the tablet belongs to.
TableOf(tablet) ==
  CHOOSE tb \in Range(cluster.tables) : \E j \in DOMAIN tb.tablets : tb.tablets[j] = tablet

tablet_str(tablet) == tablet.id \o << " of table " >> \o TableOf(tablet).name

\* VerifyTablet's locals before the loop over the replicas.
Counts0(tablet, table_num_replicas) ==
  [warnings |-> IF check_replica_count_ /\ Len(tablet.replicas) # table_num_replicas
                THEN << Msg("$0 has $1 instead of $2 replicas", tablet_str(tablet),
                            << Len(tablet.replicas), table_num_replicas >>) >>
                ELSE << >>,
   errors |-> << >>, infos |-> << >>,
   leaders_count |-> 0, followers_count |-> 0, alive_count |-> 0, running_count |-> 0,
   check_failed |-> FALSE, at_threw |-> FALSE]

\* One iteration of the loop over the replicas.
\* The test of the tablet server's health is left out.
TSAvailable_Found(u) == u \in UUIDs(cluster)

\* Line 586: if (ts && ts->is_healthy()), with ts the directory's entry for
\* the replica's uuid or null.
TSAvailable(u) == u \in UUIDs(cluster) /\ is_healthy(cluster.tablet_servers[u])

VerifyReplica(tablet, replica, acc) ==
  LET u == replica.ts_uuid
      found == u \in UUIDs(cluster)
      ts == cluster.tablet_servers[u]
      state == ReplicaState(ts, tablet.id)
      status_pb == ts.tablet_status_map[tablet.id]
      seen ==
        IF TSAvailable(u)
        THEN LET a == [acc EXCEPT !.alive_count = @ + 1]
             IN CASE state = "CHECK" -> [a EXCEPT !.check_failed = TRUE]
                  [] state = "RUNNING" ->
                       [a EXCEPT !.running_count = @ + 1,
                                 !.infos = Append(@, Msg("OK state on TS $0: $1",
                                                         TSToString(u) \o << state >>, << >>))]
                  [] state = "UNKNOWN" ->
                       [a EXCEPT !.warnings =
                          Append(@, Msg("Missing a tablet replica on tablet server $0",
                                        TSToString(u), << >>))]
                  [] tablet.id \notin DOMAIN ts.tablet_status_map ->
                       \* tablet_status_map().at(tablet_id) throws
                       [a EXCEPT !.at_threw = TRUE]
                  [] OTHER ->
                       [a EXCEPT !.warnings =
                          Append(@, Msg("Bad state on TS $0: $1 Last status: $2 Data state: $3",
                                        TSToString(u) \o << state, status_pb.last_status,
                                                          status_pb.tablet_data_state >>,
                                        << >>))]
        ELSE [acc EXCEPT !.warnings =
                Append(@, Msg("Should have a replica on TS $0, but TS is unavailable",
                              IF found THEN TSToString(u) ELSE << u >>, << >>))]
  IN IF is_leader(replica) THEN [seen EXCEPT !.leaders_count = @ + 1]
     ELSE IF is_follower(replica) THEN [seen EXCEPT !.followers_count = @ + 1]
     ELSE seen

RECURSIVE VerifyReplicas(_, _, _)
VerifyReplicas(tablet, k, acc) ==
  IF k > Len(tablet.replicas) THEN acc
  ELSE VerifyReplicas(tablet, k + 1, VerifyReplica(tablet, tablet.replicas[k], acc))

NoLeaderDetected_NoLeaderNorFollower(acc) == acc.leaders_count + acc.followers_count = 0

NoLeaderDetected(acc) == acc.leaders_count = 0

majority_size_OfReplicas(tablet, table_num_replicas) == MajoritySize(Len(tablet.replicas))

majority_size(tablet, table_num_replicas) == MajoritySize(table_num_replicas)

\* The errors VerifyTablet pushes after the loop.
TabletErrors(tablet, table_num_replicas, acc) ==
  (IF NoLeaderDetected(acc) THEN << Msg("No leader detected", << >>, << >>) >> ELSE << >>)
  \o (IF acc.alive_count < majority_size(tablet, table_num_replicas)
      THEN << Msg("$0 does not have a majority of replicas on live tablet servers",
                  tablet_str(tablet), << >>) >>
      ELSE IF acc.running_count < majority_size(tablet, table_num_replicas)
      THEN << Msg("$0 does not have a majority of replicas in RUNNING state",
                  tablet_str(tablet), << >>) >>
      ELSE << >>)

has_issues_ErrorsOnly(warnings, errors) == errors # << >>

has_issues(warnings, errors) == warnings # << >> \/ errors # << >>

\* What VerifyTablet prints.
TabletLines(tablet, warnings, errors, infos) ==
  IF ~has_issues(warnings, errors) THEN << >>
  ELSE << Line("Warn", Msg("Detected problems with $0", tablet_str(tablet), << >>)) >>
       \o [k \in DOMAIN warnings |-> Line("Warn", warnings[k])]
       \o [k \in DOMAIN errors |-> Line("Error", errors[k])]
       \o [k \in DOMAIN infos |-> Line("Info", infos[k])]
       \o << Line("Out", Msg("", << >>, << >>)) >>

\* Ksck::VerifyTablet: its return value, the vectors it filled, its counters
\* and the lines it printed.
VerifyTablet(tablet, table_num_replicas) ==
  LET acc == VerifyReplicas(tablet, 1, Counts0(tablet, table_num_replicas))
      errors == TabletErrors(tablet, table_num_replicas, acc)
  IN [tablet |-> tablet.id, table |-> TableOf(tablet).name,
      table_num_replicas |-> table_num_replicas,
      warnings |-> acc.warnings, errors |-> errors, infos |-> acc.infos,
      alive_count |-> acc.alive_count, running_count |-> acc.running_count,
      leaders_count |-> acc.leaders_count, followers_count |-> acc.followers_count,
      check_failed |-> acc.check_failed, at_threw |-> acc.at_threw,
      lines |-> TabletLines(tablet, acc.warnings, errors, acc.infos),
      good |-> ~has_issues(acc.warnings, errors)]

\* The tablets of the table that pass tablet_id_filters_ (the copy_if).
FilteredTablets(table) ==
  SelectSeq(table.tablets, LAMBDA t : MatchesAnyPattern(tablet_id_filters_, t.id))

VerifyTable_EmptyIsBad(table) ==
  LET tablets == FilteredTablets(table)
      calls == [k \in DOMAIN tablets |-> VerifyTablet(tablets[k], table.num_replicas)]
      bad_tablets_count == Cardinality({ k \in DOMAIN calls : ~calls[k].good })
  IN [good |-> tablets # << >> /\ bad_tablets_count = 0,
      calls |-> calls,
      lines |-> Flatten([k \in DOMAIN calls |-> calls[k].lines])]

\* The calls up to and including the first one that returned false.
RECURSIVE UpToFirstBad(_)
UpToFirstBad(calls) ==
  IF calls = << >> THEN << >>
  ELSE IF ~Head(calls).good THEN << Head(calls) >>
  ELSE << Head(calls) >> \o UpToFirstBad(Tail(calls))

VerifyTable_StopAtFirstBad(table) ==
  LET tablets == FilteredTablets(table)
      all == [k \in DOMAIN tablets |-> VerifyTablet(tablets[k], table.num_replicas)]
      calls == UpToFirstBad(all)
      bad_tablets_count == Cardinality({ k \in DOMAIN calls : ~calls[k].good })
  IN IF tablets = << >>
     THEN [good |-> TRUE, calls |-> << >>,
           lines |-> << Line("Info", Msg("Table $0 has 0 matching tablets",
                                         table.name, << >>)) >>]
     ELSE [good |-> bad_tablets_count = 0,
           calls |-> calls,
           lines |-> Flatten([k \in DOMAIN calls |-> calls[k].lines])
                     \o (IF bad_tablets_count = 0
                         THEN << Line("Info", Msg("Table $0 is HEALTHY ($1 tablets checked)",
                                                  table.name, << Len(tablets) >>)) >>
                         ELSE << Line("Warn", Msg("Table $0 has $1 bad tablets",
                                                  table.name, << bad_tablets_count >>)) >>)]

\* Ksck::VerifyTable: its return value, the VerifyTablet calls it made and the
\* lines printed.
VerifyTable(table) ==
  LET tablets == FilteredTablets(table)
      calls == [k \in DOMAIN tablets |-> VerifyTablet(tablets[k], table.num_replicas)]
      bad_tablets_count == Cardinality({ k \in DOMAIN calls : ~calls[k].good })
  IN IF tablets = << >>
     THEN [good |-> TRUE, calls |-> << >>,
           lines |-> << Line("Info", Msg("Table $0 has 0 matching tablets",
                                         table.name, << >>)) >>]
     ELSE [good |-> bad_tablets_count = 0,
           calls |-> calls,
           lines |-> Flatten([k \in DOMAIN calls |-> calls[k].lines])
                     \o (IF bad_tablets_count = 0
                         THEN << Line("Info", Msg("Table $0 is HEALTHY ($1 tablets checked)",
                                                  table.name, << Len(tablets) >>)) >>
                         ELSE << Line("Warn", Msg("Table $0 has $1 bad tablets",
                                                  table.name, << bad_tablets_count >>)) >>)]

\* One iteration of CheckTablesConsistency's loop over cluster_->tables().
VerifyTableStep ==
  /\ pc = "CheckTables"
  /\ fatal = "none"
  /\ table_it <= Len(cluster.tables)
  /\ LET table == cluster.tables[table_it]
         r == VerifyTable(table)
     IN IF ~MatchesAnyPattern(table_filters_, table.name)
        THEN UNCHANGED << tables_checked, bad_tables_count, tablet_calls, lines, fatal >>
        ELSE /\ tables_checked' = tables_checked + 1
             /\ bad_tables_count' = bad_tables_count + (IF r.good THEN 0 ELSE 1)
             /\ tablet_calls' = tablet_calls \o r.calls
             /\ lines' = lines \o r.lines
             /\ fatal' = IF \E k \in DOMAIN r.calls : r.calls[k].at_threw
                         THEN "std::out_of_range"
                         ELSE IF \E k \in DOMAIN r.calls : r.calls[k].check_failed
                         THEN "CHECK_EQ(state_, kFetched)" ELSE fatal
  /\ table_it' = table_it + 1
  /\ UNCHANGED << clusterVars, pc, consistency, prev_run, checksumVars, fetchVars, timeVars >>

\* The Status CheckTablesConsistency returns and the summary line it prints.
ConsistencyStatus(checked, bad) ==
  IF checked = 0 THEN StatusOK
  ELSE IF bad = 0 THEN StatusOK
  ELSE StatusOf("Corruption", bad)

ConsistencyLine(checked, bad) ==
  IF checked = 0
  THEN Line("Info", Msg("The cluster doesn't have any matching tables", << >>, << >>))
  ELSE IF bad = 0
  THEN Line("Info", Msg("The metadata for $0 table(s) is HEALTHY", << >>, << checked >>))
  ELSE Line("Warn", Msg("$0 out of $1 table(s) are not in a healthy state",
                        << >>, << bad, checked >>))

\* The end of CheckTablesConsistency.
CheckTablesReturn ==
  /\ pc = "CheckTables"
  /\ fatal = "none"
  /\ table_it > Len(cluster.tables)
  /\ consistency' = ConsistencyStatus(tables_checked, bad_tables_count)
  /\ lines' = Append(lines, ConsistencyLine(tables_checked, bad_tables_count))
  /\ pc' = "CheckTables_done"
  /\ UNCHANGED << clusterVars, tables_checked, bad_tables_count, table_it, tablet_calls,
                  fatal, prev_run, checksumVars, fetchVars, timeVars >>

\* The filters a run is given.
TableFilterChoices ==
  { << >>, << Name("t", "1") >>, << Name("t", "2") >>, << << "t", "*" >> >>,
    << Name("x", "1") >>, << Name("t", "1"), Name("t", "2") >> }

TabletFilterChoices ==
  { << >>, << Name("a", "1") >>, << << "a", "*" >> >>, << << "?", "1" >> >>,
    << Name("z", "1") >> }

\* The verifier is run again on the same snapshot with other filters
\* (set_table_filters, set_tablet_id_filters, CheckTablesConsistency); prev_run
\* keeps what the finished run was given, what it returned and the tablets it
\* found bad.
SetFilters ==
  /\ pc = "CheckTables_done"
  /\ prev_run' = [table_filters |-> table_filters_, tablet_id_filters |-> tablet_id_filters_,
                  status |-> consistency,
                  bad |-> { << tablet_calls[k].table, tablet_calls[k].tablet >> :
                              k \in { j \in DOMAIN tablet_calls : ~tablet_calls[j].good } }]
  /\ \E tf \in TableFilterChoices, tif \in TabletFilterChoices :
       /\ table_filters_' = tf
       /\ tablet_id_filters_' = tif
  /\ pc' = "CheckTables"
  /\ tables_checked' = 0
  /\ bad_tables_count' = 0
  /\ table_it' = 1
  /\ tablet_calls' = << >>
  /\ lines' = << >>
  /\ consistency' = NoStatus
  /\ UNCHANGED << cluster, check_replica_count_, opts, fatal, checksumVars, fetchVars, timeVars >>

----------------------------------------------------------------------------
(* The snapshots the verifier runs on *)

\* Largest number of replicas of the tablet SpecTablet verifies.
MaxReplicas == 4

StatusPB(state) ==
  [state |-> state, last_status |-> "status", tablet_data_state |-> "TABLET_DATA_READY"]

\* A tablet server whose fetch ended in state st and whose tablet_status_map is m.
VServer(addr, st, m) ==
  [state |-> st, address |-> addr, current_timestamp |-> 11, tablet_status_map |-> m]

Tablet(id, replicas) == [id |-> id, replicas |-> replicas]

\* A good tablet has a LEADER and a FOLLOWER on two live servers that run it;
\* a bad a1 has no leader, a bad a2 has a replica on a server whose fetch
\* failed, a bad b1 has a replica on a server missing from the directory.
HealthCluster(bad) ==
  LET ids == { Name("a", "1"), Name("a", "2"), Name("b", "1") }
      m == [id \in ids |-> StatusPB("RUNNING")]
      good == << Replica("u1", "LEADER"), Replica("u2", "FOLLOWER") >>
  IN [tables |-> <<
        [name |-> Name("t", "1"), num_replicas |-> 2, tablets |-> <<
           Tablet(Name("a", "1"),
                  IF Name("a", "1") \in bad
                  THEN << Replica("u1", "FOLLOWER"), Replica("u2", "FOLLOWER") >> ELSE good),
           Tablet(Name("a", "2"),
                  IF Name("a", "2") \in bad
                  THEN << Replica("u1", "LEADER"), Replica("u3", "FOLLOWER") >> ELSE good) >>],
        [name |-> Name("t", "2"), num_replicas |-> 2, tablets |-> <<
           Tablet(Name("b", "1"),
                  IF Name("b", "1") \in bad
                  THEN << Replica("u1", "LEADER"), Replica("u4", "FOLLOWER") >> ELSE good) >>] >>,
      tablet_servers |->
        [u \in { "u1", "u2", "u3" } |->
           IF u = "u3" THEN VServer("h" \o u, "FETCH_FAILED", << >>)
           ELSE VServer("h" \o u, "FETCHED", m)]]

HealthClusters ==
  { HealthCluster(bad) : bad \in SUBSET { Name("a", "1"), Name("a", "2"), Name("b", "1") } }

NoOptions == [scan_concurrency |-> 0, use_snapshot |-> FALSE, snapshot_timestamp |-> 0]

InitVerify ==
  \E c \in HealthClusters, crc \in BOOLEAN :
    InitKsck(c, << >>, << >>, crc, NoOptions, "CheckTables")

NextVerify ==
  \/ VerifyTableStep
  \/ CheckTablesReturn
  \/ SetFilters

SpecVerify == InitVerify /\ [][NextVerify]_vars

\* ---- one tablet, its replicas in every combination of role and server condition

ReplicaCounts == { 1, 2, 3, 4, 5, 7 }

Roles == << "LEADER", "FOLLOWER", "LEARNER" >>

\* What the snapshot holds for a replica's tablet server: a status of the
\* tablet in that state, no status of the tablet, a server whose fetch
\* failed, or no server at all.
Conditions == << "RUNNING", "FAILED", "UNKNOWN", "unhealthy", "missing" >>

UuidNames == << "u1", "u2", "u3", "u4", "u5", "u6", "u7", "u8" >>

\* One table configured with R replicas and one tablet whose k-th replica has
\* role roles[k] and sits on a server in condition Conditions[conds[k]].
TabletCluster(R, conds, roles) ==
  LET id == Name("a", "1")
      n == Len(conds)
      cond(k) == Conditions[conds[k]]
  IN [tables |-> <<
        [name |-> Name("t", "1"), num_replicas |-> R, tablets |-> <<
           Tablet(id, [k \in 1..n |-> Replica(UuidNames[k], roles[k])]) >>] >>,
      tablet_servers |->
        [u \in { UuidNames[k] : k \in { j \in 1..n : cond(j) # "missing" } } |->
           LET k == CHOOSE j \in 1..n : UuidNames[j] = u
           IN IF cond(k) = "unhealthy" THEN VServer("h" \o u, "FETCH_FAILED", << >>)
              ELSE IF cond(k) = "UNKNOWN" THEN VServer("h" \o u, "FETCHED", << >>)
              ELSE VServer("h" \o u, "FETCHED", (id :> StatusPB(cond(k))))]]

\* A replica's kind k in 1..Len(Conditions)*Len(Roles) stands for the server
\* condition CondOf(k) and the role RoleOf(k).
CondOf(k) == ((k - 1) \div Len(Roles)) + 1

RoleOf(k) == Roles[((k - 1) % Len(Roles)) + 1]

\* The nondecreasing sequences of n kinds that are at least lo.
RECURSIVE SortedKinds(_, _)
SortedKinds(n, lo) ==
  IF n = 0 THEN { << >> }
  ELSE UNION { { << k >> \o s : s \in SortedKinds(n - 1, k) } :
                 k \in lo..(Len(Conditions) * Len(Roles)) }

\* The replicas are listed by kind: their order only decides the order of
\* the warnings.
InitTablet ==
  \E n \in 0..MaxReplicas :
    \E kinds \in SortedKinds(n, 1) :
      \E R \in ReplicaCounts, crc \in BOOLEAN :
        InitKsck(TabletCluster(R, [k \in 1..n |-> CondOf(kinds[k])],
                               [k \in 1..n |-> RoleOf(kinds[k])]),
                 << >>, << >>, crc, NoOptions, "CheckTables")

NextTablet ==
  \/ VerifyTableStep
  \/ CheckTablesReturn

SpecTablet == InitTablet /\ [][NextTablet]_vars

----------------------------------------------------------------------------
(* Properties of the metadata verifier *)

\* What a pair of filters selects, from the filters alone.
SelectedTables(tf) ==
  { tb.name : tb \in { t \in Range(cluster.tables) : MatchesAnyPattern(tf, t.name) } }

SelectedTabletsOf(tf, tif) ==
  UNION { { << tb.name, t.id >> : t \in { x \in Range(tb.tablets) : MatchesAnyPattern(tif, x.id) } } :
            tb \in { t \in Range(cluster.tables) : MatchesAnyPattern(tf, t.name) } }

\* Two runs have returned, the later one under filters that select a subset
\* of the tables and of the tablets of the earlier one.
Narrowed ==
  /\ pc = "CheckTables_done"
  /\ prev_run.status # NoStatus
  /\ SelectedTables(table_filters_) \subseteq SelectedTables(prev_run.table_filters)
  /\ SelectedTabletsOf(table_filters_, tablet_id_filters_)
       \subseteq SelectedTabletsOf(prev_run.table_filters, prev_run.tablet_id_filters)

\* C8 as stated: narrowing the filters never turns Corruption into OK.
C8_Original ==
  (Narrowed /\ prev_run.status.code = "Corruption") => consistency.code # "OK"

\* C8, amended: narrowing the filters never turns OK into Corruption, and it
\* keeps Corruption whenever a tablet that the wider run found bad is still
\* selected; it turns Corruption into OK when no such tablet is selected.
C8_Amended ==
  Narrowed =>
    /\ prev_run.status.code = "OK" => consistency.code = "OK"
    /\ prev_run.status.code = "Corruption" =>
         (consistency.code = "Corruption"
            <=> prev_run.bad \cap SelectedTabletsOf(table_filters_, tablet_id_filters_) # {})

C8_Witness ==
  /\ Narrowed
  /\ SelectedTabletsOf(table_filters_, tablet_id_filters_)
       # SelectedTabletsOf(prev_run.table_filters, prev_run.tablet_id_filters)
  /\ prev_run.status = StatusOf("Corruption", 2)
  /\ consistency = StatusOf("Corruption", 1)

\* The tablet of the snapshot a VerifyTablet call was made on.
CalledTablet(call) ==
  CHOOSE t \in UNION { Range(tb.tablets) : tb \in Range(cluster.tables) } : t.id = call.tablet

CalledTable(call) ==
  CHOOSE tb \in Range(cluster.tables) : tb.name = call.table

HasError(call, text) == \E k \in DOMAIN call.errors : call.errors[k].text = text

Leaderless(tablet) == \A k \in DOMAIN tablet.replicas : tablet.replicas[k].role # "LEADER"

\* The replicas whose tablet server is in the directory and FETCHED, and
\* those among them whose server reports the tablet RUNNING.
AliveReplicas(tablet) ==
  { k \in DOMAIN tablet.replicas :
      /\ tablet.replicas[k].ts_uuid \in DOMAIN cluster.tablet_servers
      /\ cluster.tablet_servers[tablet.replicas[k].ts_uuid].state = "FETCHED" }

RunningReplicas(tablet) ==
  { k \in AliveReplicas(tablet) :
      LET m == cluster.tablet_servers[tablet.replicas[k].ts_uuid].tablet_status_map
      IN tablet.id \in DOMAIN m /\ m[tablet.id].state = "RUNNING" }

\* C9: VerifyTablet records "No leader detected" exactly when no replica of
\* the tablet is a LEADER, and then the tablet is bad (VerifyTablet returns
\* false, prints the error, and the table counts as bad), whatever the
\* replicas' states.
C9_NoLeader ==
  \A k \in DOMAIN tablet_calls :
    LET call == tablet_calls[k]
    IN /\ HasError(call, "No leader detected") <=> Leaderless(CalledTablet(call))
       /\ Leaderless(CalledTablet(call)) =>
            /\ ~call.good
            /\ \E j \in DOMAIN lines :
                 lines[j] = Line("Error", Msg("No leader detected", << >>, << >>))
            /\ bad_tables_count >= 1
            /\ pc = "CheckTables_done" => consistency.code = "Corruption"

\* A leaderless tablet with the configured number of replicas, all RUNNING on
\* healthy tablet servers, has been verified and the run returned.
C9_Witness ==
  /\ pc = "CheckTables_done"
  /\ \E k \in DOMAIN tablet_calls :
       LET call == tablet_calls[k]
           tablet == CalledTablet(call)
       IN /\ Leaderless(tablet)
          /\ Len(tablet.replicas) = 3
          /\ CalledTable(call).num_replicas = 3
          /\ Cardinality(RunningReplicas(tablet)) = 3
          /\ call.warnings = << >>
          /\ ~call.good

NoMajorityLive == "$0 does not have a majority of replicas on live tablet servers"

NoMajorityRunning == "$0 does not have a majority of replicas in RUNNING state"

\* C10: with majority = floor(R/2)+1 for the table's configured replica count
\* R in {1,2,3,4,5,7}, VerifyTablet emits the 'live tablet servers' error iff
\* alive < majority, the 'RUNNING state' error iff alive >= majority and
\* running < majority, and never both.
C10_Majority ==
  \A k \in DOMAIN tablet_calls :
    LET call == tablet_calls[k]
        tablet == CalledTablet(call)
        R == CalledTable(call).num_replicas
        majority == (R \div 2) + 1
        alive == Cardinality(AliveReplicas(tablet))
        running == Cardinality(RunningReplicas(tablet))
    IN R \in { 1, 2, 3, 4, 5, 7 } =>
         /\ HasError(call, NoMajorityLive) <=> alive < majority
         /\ HasError(call, NoMajorityRunning) <=> (alive >= majority /\ running < majority)
         /\ ~(HasError(call, NoMajorityLive) /\ HasError(call, NoMajorityRunning))

\* A table configured with 7 replicas whose tablet has 4, all alive and 3 of
\* them RUNNING: the majority is 4, of the 7.
C10_Witness ==
  \E k \in DOMAIN tablet_calls :
    LET call == tablet_calls[k]
        tablet == CalledTablet(call)
    IN /\ CalledTable(call).num_replicas = 7
       /\ Len(tablet.replicas) = 4
       /\ Cardinality(AliveReplicas(tablet)) = 4
       /\ Cardinality(RunningReplicas(tablet)) = 3
       /\ HasError(call, NoMajorityRunning)
       /\ ~HasError(call, NoMajorityLive)

\* The replicas whose tablet server is missing from the directory or not FETCHED.
UnavailableReplicas(tablet) == DOMAIN tablet.replicas \ AliveReplicas(tablet)

Unavailable == "Should have a replica on TS $0, but TS is unavailable"

\* How many of the call's warnings have this text.
WarningCount(call, text) ==
  Cardinality({ j \in DOMAIN call.warnings : call.warnings[j].text = text })

\* C11: VerifyTablet returns false iff it accumulated a warning or an error
\* (and prints its block exactly then); each replica whose tablet server is
\* missing or not FETCHED adds the 'TS is unavailable' warning and is counted
\* neither alive nor running, so the tablet is bad and the run returns
\* Corruption, whatever the other replicas are.
C11_BadTablet ==
  \A k \in DOMAIN tablet_calls :
    LET call == tablet_calls[k]
        tablet == CalledTablet(call)
    IN /\ ~call.good <=> (call.warnings # << >> \/ call.errors # << >>)
       /\ ~call.good <=> call.lines # << >>
       /\ WarningCount(call, Unavailable) = Cardinality(UnavailableReplicas(tablet))
       /\ call.alive_count = Cardinality(AliveReplicas(tablet))
       /\ call.running_count = Cardinality(RunningReplicas(tablet))
       /\ UnavailableReplicas(tablet) # {} =>
            /\ ~call.good
            /\ bad_tables_count >= 1
            /\ pc = "CheckTables_done" => consistency.code = "Corruption"

\* Three replicas configured and present, a LEADER and a FOLLOWER RUNNING on
\* live servers, the third on an unavailable server: no error, one warning,
\* and the run returned Corruption.
C11_Witness ==
  /\ pc = "CheckTables_done"
  /\ consistency = StatusOf("Corruption", 1)
  /\ \E k \in DOMAIN tablet_calls :
       LET call == tablet_calls[k]
           tablet == CalledTablet(call)
       IN /\ CalledTable(call).num_replicas = 3
          /\ Len(tablet.replicas) = 3
          /\ Cardinality(RunningReplicas(tablet)) = 2
          /\ Cardinality(UnavailableReplicas(tablet)) = 1
          /\ ~Leaderless(tablet)
          /\ call.errors = << >>
          /\ Len(call.warnings) = 1
          /\ ~call.good

\* The tables that pass table_filters_ and have a tablet that passes
\* tablet_id_filters_ and that VerifyTablet finds bad.
BadTables ==
  { ti \in DOMAIN cluster.tables :
      /\ MatchesAnyPattern(table_filters_, cluster.tables[ti].name)
      /\ \E j \in DOMAIN cluster.tables[ti].tablets :
           /\ MatchesAnyPattern(tablet_id_filters_, cluster.tables[ti].tablets[j].id)
           /\ ~VerifyTablet(cluster.tables[ti].tablets[j], cluster.tables[ti].num_replicas).good }

\* C12: CheckTablesConsistency returns Corruption iff some filtered table has
\* a filtered tablet that VerifyTablet finds bad, carrying the number of such
\* tables, and OK otherwise (so also when nothing is selected); VerifyTablet
\* has then been called once on every filtered tablet of every filtered
\* table, in source order, also after a bad one.
C12_Consistency ==
  pc = "CheckTables_done" =>
    /\ consistency = IF BadTables = {} THEN StatusOK
                     ELSE StatusOf("Corruption", Cardinality(BadTables))
    /\ [k \in DOMAIN tablet_calls |-> << tablet_calls[k].table, tablet_calls[k].tablet >>]
         = [k \in DOMAIN SelectedTablets |->
              << cluster.tables[SelectedTablets[k][1]].name, TabletAt(SelectedTablets[k]).id >>]
    /\ SelectedTabletsOf(table_filters_, tablet_id_filters_) = {} => consistency = StatusOK

\* Both tables are bad, the first one by its first tablet, and the three
\* tablets have all been verified.
C12_Witness ==
  /\ pc = "CheckTables_done"
  /\ consistency = StatusOf("Corruption", 2)
  /\ Len(tablet_calls) = 3
  /\ ~tablet_calls[1].good
  /\ tablet_calls[2].good

----------------------------------------------------------------------------
(* Ksck::FetchInfoFromTabletServers: one task per tablet server on a       *)
(* thread pool of at most fetch_replica_info_concurrency threads.  A task  *)
(* is "queued", "running" (ConnectToTabletServer not started), "failed"    *)
(* (FetchInfo returned an error, the counter not yet incremented) or       *)
(* "done".                                                                 *)

\* Largest number of tablet servers in the directory SpecFetch explores.
MaxServers == 3
\* Largest FLAGS_fetch_replica_info_concurrency SpecFetch explores.
MaxFetchThreads == 2

\* The beginning of FetchInfoFromTabletServers, up to the pool's creation.
FetchStart ==
  /\ pc = "Fetch"
  /\ IF Cardinality(UUIDs(cluster)) = 0
     THEN /\ fetch_status' = StatusOf("NotFound", 0)
          /\ pc' = "Fetch_done"
          /\ UNCHANGED fetch_order
     ELSE /\ \E o \in Perms(UUIDs(cluster)) : fetch_order' = o
          /\ pc' = "Fetch_submit"
          /\ UNCHANGED fetch_status
  /\ UNCHANGED << clusterVars, verifyVars, checksumVars, timeVars, fatal,
                  fetch_replica_info_concurrency, fetch_it, pool, bad_servers, fetch_calls >>

\* One iteration of the loop that submits the tasks, or its exit to pool->Wait().
FetchSubmit ==
  /\ pc = "Fetch_submit"
  /\ IF fetch_it <= Len(fetch_order)
     THEN /\ pool' = MapPut(pool, fetch_order[fetch_it], "queued")
          /\ fetch_it' = fetch_it + 1
          /\ pc' = pc
     ELSE /\ pc' = "Fetch_wait"
          /\ UNCHANGED << pool, fetch_it >>
  /\ UNCHANGED << clusterVars, verifyVars, checksumVars, timeVars, fatal,
                  fetch_replica_info_concurrency, fetch_order, bad_servers, fetch_status,
                  fetch_calls >>

\* A pool thread takes the task of tablet server u.
WorkerTake(u) ==
  /\ pool[u] = "queued"
  /\ Cardinality({ v \in DOMAIN pool : pool[v] \in { "running", "failed" } })
       < fetch_replica_info_concurrency
  /\ pool' = [pool EXCEPT ![u] = "running"]
  /\ UNCHANGED << clusterVars, verifyVars, checksumVars, timeVars, fatal, pc,
                  fetch_replica_info_concurrency, fetch_order, fetch_it, bad_servers,
                  fetch_status, fetch_calls >>

\* KsckTabletServer::FetchInfo: it either fills the server's data or fails.
FetchInfo(ts, ok) ==
  IF ok THEN [ts EXCEPT !.state = "FETCHED"] ELSE [ts EXCEPT !.state = "FETCH_FAILED"]

\* The task's call of ConnectToTabletServer(entry.second).
WorkerConnect(u) ==
  /\ pool[u] = "running"
  /\ \E ok \in BOOLEAN :
       /\ cluster' = [cluster EXCEPT !.tablet_servers[u] = FetchInfo(@, ok)]
       /\ pool' = [pool EXCEPT ![u] = IF ok THEN "done" ELSE "failed"]
       /\ lines' = IF ok THEN lines
                   ELSE Append(lines, Line("Warn", Msg("Unable to connect to Tablet Server $0: $1",
                                                       << u >>, << >>)))
  /\ fetch_calls' = BagAdd(fetch_calls, u)
  /\ UNCHANGED << table_filters_, tablet_id_filters_, check_replica_count_, opts,
                  tables_checked, bad_tables_count, table_it, consistency, tablet_calls,
                  prev_run, checksumVars, timeVars, fatal, pc, fetch_replica_info_concurrency,
                  fetch_order, fetch_it, bad_servers, fetch_status >>

\* bad_servers.Increment() of a task whose connection failed.
WorkerIncrement(u) ==
  /\ pool[u] = "failed"
  /\ bad_servers' = bad_servers + 1
  /\ pool' = [pool EXCEPT ![u] = "done"]
  /\ UNCHANGED << clusterVars, verifyVars, checksumVars, timeVars, fatal, pc,
                  fetch_replica_info_concurrency, fetch_order, fetch_it, fetch_status,
                  fetch_calls >>

PoolIdle_NothingQueued == \A u \in DOMAIN pool : pool[u] # "queued"

\* ThreadPool::Wait returns when no task is queued or running.
PoolIdle == \A u \in DOMAIN pool : pool[u] = "done"

FetchStatus_AllUnreachable(servers_count, bad) ==
  IF bad < servers_count THEN StatusOK ELSE StatusOf("NetworkError", 0)

FetchStatus(servers_count, bad) ==
  IF bad = 0 THEN StatusOK ELSE StatusOf("NetworkError", 0)

FetchLine(servers_count, bad) ==
  IF bad = 0
  THEN Line("Info", Msg("Fetched info from all $0 Tablet Servers", << >>, << servers_count >>))
  ELSE Line("Warn", Msg("Fetched info from $0 Tablet Servers, $1 weren't reachable",
                        << >>, << servers_count - bad, bad >>))

\* pool->Wait() returns and FetchInfoFromTabletServers decides its Status.
FetchReturn ==
  /\ pc = "Fetch_wait"
  /\ PoolIdle
  /\ fetch_status' = FetchStatus(Cardinality(UUIDs(cluster)), bad_servers)
  /\ lines' = Append(lines, FetchLine(Cardinality(UUIDs(cluster)), bad_servers))
  /\ pc' = "Fetch_done"
  /\ UNCHANGED << clusterVars, tables_checked, bad_tables_count, table_it, consistency,
                  tablet_calls, prev_run, checksumVars, timeVars, fatal,
                  fetch_replica_info_concurrency, fetch_order, fetch_it, pool, bad_servers,
                  fetch_calls >>

\* The directory before the fetch: n tablet servers, none fetched yet.
UnfetchedCluster(n) ==
  [tables |-> << >>,
   tablet_servers |-> [u \in { UuidNames[k] : k \in 1..n } |->
                         VServer("h" \o u, "UNINITIALIZED", << >>)]]

InitFetch ==
  \E n \in 0..MaxServers, conc \in 1..MaxFetchThreads :
    InitKsckWith(UnfetchedCluster(n), << >>, << >>, TRUE, NoOptions, "Fetch", conc)

NextFetch ==
  \/ FetchStart
  \/ FetchSubmit
  \/ \E u \in DOMAIN pool : WorkerTake(u)
  \/ \E u \in DOMAIN pool : WorkerConnect(u)
  \/ \E u \in DOMAIN pool : WorkerIncrement(u)
  \/ FetchReturn

SpecFetch == InitFetch /\ [][NextFetch]_vars

\* The tablet servers whose FetchInfo call has failed.
FailedServers == { u \in UUIDs(cluster) : cluster.tablet_servers[u].state = "FETCH_FAILED" }

\* C13: FetchInfo is called at most once per tablet server; when
\* FetchInfoFromTabletServers has returned for a non-empty directory it has
\* been called exactly once on each, all calls have ended, the counter is the
\* number of failed servers, and the Status is OK iff none failed and
\* NetworkError otherwise; for an empty directory the Status is NotFound and
\* no call was made.
C13_Fetch ==
  /\ \A u \in DOMAIN fetch_calls : fetch_calls[u] <= 1
  /\ pc = "Fetch_done" =>
       IF UUIDs(cluster) = {}
       THEN fetch_status.code = "NotFound" /\ fetch_calls = << >> /\ pool = << >>
       ELSE /\ DOMAIN fetch_calls = UUIDs(cluster)
            /\ \A u \in UUIDs(cluster) : fetch_calls[u] = 1 /\ pool[u] = "done"
            /\ bad_servers = Cardinality(FailedServers)
            /\ fetch_status.code = "OK" <=> FailedServers = {}
            /\ fetch_status.code = "NetworkError" <=> FailedServers # {}

\* Three servers, the one fetched first failed and the others succeeded.
C13_Witness ==
  /\ pc = "Fetch_done"
  /\ Cardinality(UUIDs(cluster)) = 3
  /\ Cardinality(FailedServers) = 1
  /\ fetch_status.code = "NetworkError"
  /\ bad_servers = 1

----------------------------------------------------------------------------
(* The checksum phase over tablet servers of which some are not healthy,   *)
(* under the different settings of the snapshot options.                   *)

\* ClusterTwoTables with only the tablet servers in healthy FETCHED; the
\* others report no timestamp.
ClusterWithHealthy(healthy) ==
  [ClusterTwoTables EXCEPT !.tablet_servers =
     [u \in { "u1", "u2" } |->
        IF u \in healthy THEN ClusterTwoTables.tablet_servers[u]
        ELSE [state |-> "FETCH_FAILED", address |-> "h" \o u, current_timestamp |-> 0,
              tablet_status_map |-> << >>]]]

\* use_snapshot with the current timestamp, use_snapshot with a given
\* timestamp, and no snapshot.
SnapshotOptions ==
  { [scan_concurrency |-> 1, use_snapshot |-> TRUE, snapshot_timestamp |-> 0],
    [scan_concurrency |-> 1, use_snapshot |-> TRUE, snapshot_timestamp |-> 5],
    [scan_concurrency |-> 1, use_snapshot |-> FALSE, snapshot_timestamp |-> 0] }

InitSnapshot ==
  \E healthy \in SUBSET { "u1", "u2" }, o \in SnapshotOptions :
    InitChecksum(ClusterWithHealthy(healthy), << >>, << >>, o)

SpecSnapshot == InitSnapshot /\ [][Next]_vars

\* ChecksumData was asked to resolve the snapshot timestamp.
ResolveAsked == opts.use_snapshot /\ opts.snapshot_timestamp = 0

\* The "Using snapshot timestamp" lines printed so far.
ResolveLines == { k \in DOMAIN err : err[k][2] = "Using snapshot timestamp" }

\* C14: when use_snapshot is set and snapshot_timestamp is 0, the timestamp
\* is resolved at most once and before any scan is started, to the
\* current_timestamp of the first healthy tablet server in the iteration
\* order of tablet_server_queues, and every scan started, by the kick-off
\* loop or by a callback, carries it.
C14_Timestamp ==
  ResolveAsked =>
    /\ Cardinality(ResolveLines) <= 1
    /\ started # << >> => Cardinality(ResolveLines) = 1
    /\ \A k \in ResolveLines : err[k][3] = options.snapshot_timestamp
    /\ (ts_order # << >> /\ pc \notin { "start", "resolve" }
        /\ status.code # "ServiceUnavailable") =>
         \E e \in DOMAIN ts_order :
           /\ cluster.tablet_servers[ts_order[e]].state = "FETCHED"
           /\ \A f \in 1..(e - 1) : cluster.tablet_servers[ts_order[f]].state # "FETCHED"
           /\ options.snapshot_timestamp = cluster.tablet_servers[ts_order[e]].current_timestamp
    /\ \A call \in DOMAIN started :
         /\ call.snapshot_timestamp = options.snapshot_timestamp
         /\ call.snapshot_timestamp # 0

\* u1 is not healthy, the timestamp is the one of u2, and the second scan of
\* u1, started by a callback, has been made with it.
C14_Witness ==
  /\ ResolveAsked
  /\ cluster.tablet_servers["u1"].state # "FETCHED"
  /\ options.snapshot_timestamp = 12
  /\ \E c \in DOMAIN cbs : c = << "u1", 0 >> /\ cbs[c].st = "deleted"
  /\ Cardinality({ call \in DOMAIN started : call.ts = "u1" /\ call.snapshot_timestamp = 12 }) = 2

\* The tablet servers that hold work: those with a replica of a selected tablet.
WorkServers == { p[2] : p \in WorkSet }

\* C15: when use_snapshot is set and snapshot_timestamp is 0, ChecksumData
\* returns ServiceUnavailable iff no tablet server that holds work is
\* healthy, and then no scan has been started; with a healthy one the
\* timestamp is resolved and the scans are started.
C15_ServiceUnavailable ==
  (ResolveAsked /\ WorkSet # {}) =>
    /\ status.code = "ServiceUnavailable" => (started = << >> /\ cbs = << >> /\ pc = "done")
    /\ pc = "done" =>
         (status.code = "ServiceUnavailable"
            <=> \A u \in WorkServers : cluster.tablet_servers[u].state # "FETCHED")
    /\ (pc \notin { "start", "resolve" }
        /\ \E u \in WorkServers : cluster.tablet_servers[u].state = "FETCHED") =>
         /\ options.snapshot_timestamp # 0
         /\ pc \notin { "kickoff" } => started # << >>

C15_Witness ==
  /\ ResolveAsked
  /\ pc = "done"
  /\ status.code = "ServiceUnavailable"
  /\ WorkServers = { "u1", "u2" }
  /\ started = << >>

----------------------------------------------------------------------------
(* The checksum phase under table and tablet filters *)

\* ClusterTwoTables and a third table whose only tablet has no replica.
ClusterWithEmptyTablet ==
  [ClusterTwoTables EXCEPT !.tables =
     @ \o << [name |-> Name("x", "1"), num_replicas |-> 1,
              tablets |-> << [id |-> Name("z", "1"), replicas |-> << >>] >>] >>]

InitFilters ==
  \E tf \in TableFilterChoices, tif \in TabletFilterChoices :
    InitChecksum(ClusterWithEmptyTablet, tf, tif,
                 [scan_concurrency |-> 1, use_snapshot |-> TRUE, snapshot_timestamp |-> 0])

SpecFilters == InitFilters /\ [][Next]_vars

\* The replicas << table name, tablet id, index of the replica >> of the
\* tablets that pass both filters.
SelectedReplicas ==
  UNION { { << tb.name, t.id, k >> : k \in DOMAIN t.replicas } :
            << tb, t >> \in { << tb2, t2 >> \in Range(cluster.tables) \X
                                UNION { Range(x.tablets) : x \in Range(cluster.tables) } :
                                /\ t2 \in Range(tb2.tablets)
                                /\ MatchesAnyPattern(table_filters_, tb2.name)
                                /\ MatchesAnyPattern(tablet_id_filters_, t2.id) } }

\* How many selected replicas of tablet id, of a table with this schema, sit
\* on tablet server u.
ReplicasOn(u, schema, id) ==
  Cardinality({ r \in SelectedReplicas :
                  /\ r[1] = schema /\ r[2] = id
                  /\ \E tb \in Range(cluster.tables), t \in
                          UNION { Range(x.tablets) : x \in Range(cluster.tables) } :
                       /\ tb.name = r[1] /\ t \in Range(tb.tablets) /\ t.id = r[2]
                       /\ t.replicas[r[3]].ts_uuid = u })

ItemCount(queue, item) == Cardinality({ k \in DOMAIN queue : queue[k] = item })

\* C16: when the filters select no replica ChecksumData returns NotFound
\* having created no queue, callback or scan and without waiting; otherwise,
\* once the queues are built, each tablet server with a selected replica has
\* a queue that holds exactly one item (schema, tablet_id) per selected
\* replica it hosts, and no other queue exists.
C16_WorkItems ==
  /\ pc # "start" => num_tablet_replicas = Cardinality(SelectedReplicas)
  /\ (pc # "start" /\ SelectedReplicas = {}) =>
       /\ pc = "done"
       /\ status.code = "NotFound"
       /\ tablet_server_queues = << >> /\ cbs = << >> /\ started = << >>
       /\ expected_count_ = 0 /\ ~timed_out
  /\ (pc = "resolve" /\ SelectedReplicas # {}) =>
       /\ DOMAIN tablet_server_queues
            = { u \in UUIDs(cluster) : \E r \in SelectedReplicas : ReplicasOn(u, r[1], r[2]) > 0 }
       /\ \A u \in DOMAIN tablet_server_queues :
            /\ \A r \in SelectedReplicas :
                 ItemCount(tablet_server_queues[u], [schema |-> r[1], tablet_id |-> r[2]])
                   = ReplicasOn(u, r[1], r[2])
            /\ \A k \in DOMAIN tablet_server_queues[u] :
                 \E r \in SelectedReplicas :
                   tablet_server_queues[u][k] = [schema |-> r[1], tablet_id |-> r[2]]
       /\ SumSeq([e \in DOMAIN ts_order |-> Len(tablet_server_queues[ts_order[e]])])
            = num_tablet_replicas

\* Only tablet a1 is selected, by a tablet filter: one item for each of its
\* two tablet servers.
C16_Witness ==
  /\ pc = "resolve"
  /\ tablet_id_filters_ = << Name("a", "1") >>
  /\ num_tablet_replicas = 2
  /\ Len(tablet_server_queues["u1"]) = 1
  /\ Len(tablet_server_queues["u2"]) = 1

----------------------------------------------------------------------------
(* ChecksumResultReporter::WaitFor against a clock (lines 279-301).  Spec   *)
(* leaves the clock out and lets WaitFor find its time expired at any test; *)
(* here the clock is a counter of ticks, WaitFor computes its deadline and  *)
(* rem_ms from it, and the latch's timed wait ends when its time is up.     *)

\* Ticks in a millisecond: the resolution of the clock.
TicksPerMs == 2

\* The largest options.timeout tried, in ticks.
MaxTimeout == 4

\* The clock stops here.
MaxTime == 6

\* std::min(rem_ms, 5000): the longest single wait on the latch, in ms.
max_wait_ms == 5000

Min(a, b) == IF a < b THEN a ELSE b

\* MonoDelta::ToMilliseconds() assigned to an int: the whole milliseconds in
\* d ticks, rounded toward zero.
ToMilliseconds(d) == IF d >= 0 THEN d \div TicksPerMs ELSE -((-d) \div TicksPerMs)

\* Lines 467 and 280-283: WaitFor(options.timeout) takes start and deadline
\* on entry.
TimedWaitForEnter ==
  /\ pc = "WaitFor_check" /\ fatal = "none"
  /\ waitfor.start = -1
  /\ waitfor' = [waitfor EXCEPT !.start = clock, !.deadline = clock + options.timeout]
  /\ UNCHANGED << clusterVars, verifyVars, fetchVars, mainVars, fatal, reporterVars, cbs, scans,
                  started, reported_late, clock, done_at >>

\* Line 289: if (rem_ms <= 0) return false.
rem_ms_Expired(rem_ms) == rem_ms <= 0

\* Lines 287-291: the loop's test of the time remaining; either WaitFor
\* returns false (line 467 then sets timed_out) or it goes to wait on the
\* latch for min(rem_ms, 5000) ms.
TimedWaitForCheck ==
  /\ pc = "WaitFor_check" /\ fatal = "none"
  /\ waitfor.start # -1
  /\ LET rem_ms == ToMilliseconds(waitfor.deadline - clock)
     IN IF rem_ms_Expired(rem_ms)
        THEN /\ waitfor' = [waitfor EXCEPT !.result = "false", !.count = responses_]
             /\ timed_out' = TRUE
             /\ pc' = "copy"
        ELSE /\ waitfor' = [waitfor EXCEPT
                              !.until = clock + Min(rem_ms, max_wait_ms) * TicksPerMs]
             /\ pc' = "WaitFor_latch"
             /\ UNCHANGED timed_out
  /\ UNCHANGED << clusterVars, verifyVars, fetchVars, options, num_tablet_replicas,
                  tablet_server_queues, ts_order, shutdown, kick, checksums, num_errors,
                  num_mismatches, num_results, out, err, status, fatal, reporterVars, cbs,
                  scans, started, reported_late, clock, done_at >>

\* Line 291: the latch's WaitFor returns true once the count is 0 and false
\* when its time is up with results outstanding; the progress line follows
\* either, and WaitFor returns true in the first case.
TimedWaitForLatch ==
  /\ pc = "WaitFor_latch" /\ fatal = "none"
  /\ IF LatchDone
     THEN /\ pc' = "copy"
          /\ waitfor' = [waitfor EXCEPT !.result = "true", !.count = responses_]
          /\ err' = Append(err, << "INFO", "Checksum finished", responses_, expected_count_ >>)
     ELSE /\ clock >= waitfor.until
          /\ pc' = "WaitFor_check"
          /\ UNCHANGED << waitfor, err >>
  /\ UNCHANGED << clusterVars, verifyVars, fetchVars, options, num_tablet_replicas,
                  tablet_server_queues, ts_order, shutdown, kick, timed_out, checksums,
                  num_errors, num_mismatches, num_results, out, status, fatal, reporterVars,
                  cbs, scans, started, reported_late, clock, done_at >>

\* Time passes while the main thread starts the scans and while it is blocked
\* on the latch; the steps of WaitFor itself take no time.
Tick ==
  /\ clock < MaxTime
  /\ \/ pc = "kickoff"
     \/ pc = "WaitFor_latch" /\ ~LatchDone /\ clock < waitfor.until
  /\ clock' = clock + 1
  /\ UNCHANGED << clusterVars, verifyVars, fetchVars, mainVars, fatal, reporterVars, cbs, scans,
                  started, reported_late, waitfor, done_at >>

\* Two tablets with one replica each, both on the one tablet server.
ClusterOneServer ==
  [tables |-> <<
     [name |-> Name("t", "1"), num_replicas |-> 1, tablets |-> <<
        [id |-> Name("a", "1"), replicas |-> << Replica("u1", "LEADER") >>],
        [id |-> Name("a", "2"), replicas |-> << Replica("u1", "LEADER") >>] >>] >>,
   tablet_servers |-> Servers({ "u1" })]

\* The options carry a timeout of t ticks.
InitWaitFor ==
  \E t \in 0..MaxTimeout :
    InitChecksum(ClusterOneServer, << >>, << >>,
                 [scan_concurrency |-> 1, use_snapshot |-> FALSE, snapshot_timestamp |-> 0,
                  timeout |-> t])

NextWaitFor ==
  \/ BuildWork
  \/ ResolveTimestamp
  \/ KickoffStep
  \/ \E c \in DOMAIN cbs : FinishedInsert(c)
  \/ \E c \in DOMAIN cbs : FinishedCountDown(c)
  \/ \E c \in DOMAIN cbs : FinishedNext(c)
  \/ TimedWaitForEnter
  \/ TimedWaitForCheck
  \/ TimedWaitForLatch
  \/ Tick
  \/ Classify

SpecWaitFor == InitWaitFor /\ [][NextWaitFor]_vars

\* All expected results had been reported, no later than the deadline, when
\* WaitFor returned (count is responses_.count() at the return).
ReportedByDeadline ==
  /\ waitfor.count = 0
  /\ done_at # -1
  /\ done_at <= waitfor.deadline

\* C17: WaitFor returns false only if the timeout expired before all expected
\* responses came in, and true otherwise: true whenever all expected_count
\* results were reported no later than the deadline (also when they were all
\* reported before WaitFor was called), false when the deadline passes with
\* the counter still above 0.
C17_WaitFor ==
  /\ waitfor.result = "false" => ~ReportedByDeadline
  /\ waitfor.result = "true" => ReportedByDeadline

\* WaitFor was called after every result had been reported and has returned.
C17_Witness ==
  /\ waitfor.result # "none"
  /\ done_at # -1
  /\ done_at <= waitfor.start

----------------------------------------------------------------------------
(* C18: the reporter under concurrent ReportResult calls *)

\* RunTabletChecksumScanAsync calls made so far, on all tablet servers.
StartedTotal ==
  LET RECURSIVE sum(_)
      sum(S) == IF S = {} THEN 0
                ELSE LET x == CHOOSE y \in S : TRUE IN started[x] + sum(S \ {x})
  IN  sum(DOMAIN started)

\* The reporter has been constructed (line 430).
ReporterBuilt == expected_count_ > 0

\* C18: under concurrent ReportResult calls no (tablet_id, replica_uuid) pair
\* is inserted twice (every ReportResult call that has inserted added an entry
\* of its own); whenever no call is inside its critical section, the
\* outstanding counter is expected_count minus the number of entries of the
\* result map; and once the counter is 0, checksums() returns all the
\* expected entries.
C18_Reporter ==
  /\ fatal # "InsertOrDie"
  /\ fatal = "none" => Cardinality(Pairs(checksums_)) = StartedTotal - Cardinality(scans)
  /\ lock_ = << >> =>
       responses_ = expected_count_ - Cardinality(Pairs(checksums_))
  /\ (ReporterBuilt /\ responses_ = 0 /\ lock_ = << >>) =>
       /\ Pairs(ChecksumsCopy) = WorkSet
       /\ Cardinality(Pairs(ChecksumsCopy)) = expected_count_

\* A ReportResult call is inside its critical section (inserted, not yet
\* counted down) while another scan is in flight and an earlier result is in
\* the map.
C18_Witness ==
  /\ lock_ # << >>
  /\ Cardinality(scans) >= 1
  /\ Cardinality(Pairs(checksums_)) >= 2
  /\ responses_ = expected_count_ - Cardinality(Pairs(checksums_)) + 1

----------------------------------------------------------------------------
(* C19: the order of the checksum report *)

\* Table t1 has two tablets, on different tablet servers; t2 has one, queued
\* behind t1's first on u1; x1 has a tablet without replicas.
ClusterReport ==
  [tables |-> <<
     [name |-> Name("t", "1"), num_replicas |-> 1, tablets |-> <<
        [id |-> Name("a", "1"), replicas |-> << Replica("u1", "LEADER") >>],
        [id |-> Name("a", "2"), replicas |-> << Replica("u2", "LEADER") >>] >>],
     [name |-> Name("t", "2"), num_replicas |-> 1, tablets |-> <<
        [id |-> Name("b", "1"), replicas |-> << Replica("u1", "LEADER") >>] >>],
     [name |-> Name("x", "1"), num_replicas |-> 1, tablets |-> <<
        [id |-> Name("z", "1"), replicas |-> << >>] >>] >>,
   tablet_servers |-> Servers({ "u1", "u2" })]

InitReport ==
  \E tf \in { << >>, << Name("t", "2") >> },
     tif \in { << >>, << << "?", "1" >> >>, << Name("a", "2") >> } :
    InitChecksum(ClusterReport, tf, tif,
                 [scan_concurrency |-> 1, use_snapshot |-> FALSE, snapshot_timestamp |-> 0])

SpecReport == InitReport /\ [][Next]_vars

\* The printed lines with each result line reduced to its tablet id.
Skeleton(o) ==
  [k \in DOMAIN o |-> IF o[k][1] = "T" THEN << "T", o[k][2] >> ELSE o[k]]

\* One result line per result the copied map holds for the tablet.
TabletBlock(tablet) ==
  IF tablet.id \in DOMAIN checksums
  THEN [k \in 1..Cardinality(DOMAIN checksums[tablet.id]) |-> << "T", tablet.id >>]
  ELSE << >>

\* The table's name, the blocks of its tablets in their order and the closing
\* empty line; nothing for a table none of whose tablets has a result.
TableBlock(table) ==
  IF \A j \in DOMAIN table.tablets : table.tablets[j].id \notin DOMAIN checksums
  THEN << >>
  ELSE << << "table", table.name >> >>
       \o Flatten([j \in DOMAIN table.tablets |-> TabletBlock(table.tablets[j])])
       \o << << "" >> >>

\* The (tablet_id, replica uuid) pairs of the result lines printed.
PrintedPairs == { << out[k][2], out[k][3] >> : k \in { j \in DOMAIN out : out[j][1] = "T" } }

\* C19: the checksum report follows the source order of the snapshot, tables
\* in their order and within a table its tablets in their order, whatever
\* the order in which the scans completed; a table's header is printed once,
\* before the first of its tablets that has a result, and a table without
\* results prints nothing.
C19_ReportOrder ==
  Classified =>
    /\ Skeleton(out) = Flatten([ti \in DOMAIN cluster.tables |-> TableBlock(cluster.tables[ti])])
    /\ PrintedPairs = Pairs(checksums)

\* The result of t1's second tablet was reported after WaitFor had timed out
\* and after the result of t2's tablet, and is printed before it, under t1's
\* one header; x1 has no results.
C19_Witness ==
  /\ Classified
  /\ reported_late = { << Name("a", "2"), "u2" >> }
  /\ Pairs(checksums) = { << Name("a", "1"), "u1" >>, << Name("a", "2"), "u2" >>,
                          << Name("b", "1"), "u1" >> }
  /\ Skeleton(out) = << << "table", Name("t", "1") >>, << "T", Name("a", "1") >>,
                        << "T", Name("a", "2") >>, << "" >>,
                        << "table", Name("t", "2") >>, << "T", Name("b", "1") >>, << "" >> >>

----------------------------------------------------------------------------
(* C20: the hand-out of the work items *)

\* One tablet server with four work items.
ClusterChain ==
  [tables |-> <<
     [name |-> Name("t", "1"), num_replicas |-> 1, tablets |-> <<
        [id |-> Name("a", "1"), replicas |-> << Replica("u1", "LEADER") >>],
        [id |-> Name("a", "2"), replicas |-> << Replica("u1", "LEADER") >>],
        [id |-> Name("a", "3"), replicas |-> << Replica("u1", "LEADER") >>],
        [id |-> Name("a", "4"), replicas |-> << Replica("u1", "LEADER") >>] >>] >>,
   tablet_servers |-> Servers({ "u1" })]

\* Two callbacks at a time share the queue of the one server, or one callback
\* per server works through the queues of two servers.
InitChain ==
  \E c \in { ClusterChain, ClusterTwoTables } :
    InitChecksum(c, << >>, << >>,
                 [scan_concurrency |-> IF c = ClusterChain THEN 2 ELSE 1,
                  use_snapshot |-> FALSE, snapshot_timestamp |-> 0])

SpecChain == InitChain /\ [][Next]_vars

\* The tablets whose scan RunTabletChecksumScanAsync was asked to start on u.
StartedTablets(u) == { x.tablet_id : x \in { y \in DOMAIN started : y.ts = u } }

\* The tablets of the items still in u's queue.
QueuedTablets(u) ==
  { tablet_server_queues[u][k].tablet_id : k \in DOMAIN tablet_server_queues[u] }

\* C20: every work item is handed to RunTabletChecksumScanAsync at most once
\* and only on the tablet server in whose queue it was placed: each pop, by
\* the kick-off loop or by one of several callbacks in their Finished at the
\* same time, yields an item no other pop yields, and a callback of server S
\* chains only items of S's queue.
C20_HandOut ==
  /\ LET work == WorkSet
     IN  /\ \A x \in DOMAIN started :
              /\ started[x] = 1
              /\ << x.tablet_id, x.ts >> \in work
         /\ \A u \in DOMAIN tablet_server_queues :
              /\ StartedOn(u) = Cardinality(StartedTablets(u))
              /\ StartedTablets(u) \cap QueuedTablets(u) = {}
              /\ StartedTablets(u) \cup QueuedTablets(u)
                   = { p[1] : p \in { q \in work : q[2] = u } }
  /\ \A s \in scans :
       /\ cbs[s.cb].tablet_server = s.ts
       /\ cbs[s.cb].tablet_id = s.tablet_id

\* Both callbacks of u1 are in their Finished at once, after ReportResult and
\* before the pop, one of them for an item it chained itself, with an item
\* left in the queue.
C20_Witness ==
  /\ \A c \in { << "u1", 0 >>, << "u1", 1 >> } : c \in DOMAIN cbs /\ cbs[c].st = "reported"
  /\ StartedOn("u1") = 3
  /\ Len(tablet_server_queues["u1"]) = 1

----------------------------------------------------------------------------
(* C21: liveness of the scheduler.  Every thread that can take a step       *)
(* eventually takes it, and every started scan eventually invokes Finished  *)
(* (FinishedInsert is the entry of Finished); nothing makes WaitFor find    *)
(* its time expired, and nothing keeps it from doing so.                    *)

\* scan_concurrency is 0, at most the items of a server's queue, or more.
InitLive ==
  \E conc \in 0..2 :
    InitChecksum(ClusterReport, << >>, << >>,
                 [scan_concurrency |-> conc, use_snapshot |-> FALSE, snapshot_timestamp |-> 0])

\* The steps of the main thread in the scheduler (the kick-off loop and
\* WaitFor), other than finding WaitFor's time expired.
MainStep ==
  \/ KickoffStep
  \/ WaitForRemaining
  \/ WaitForLatch

\* The steps of the threads that run Finished.  The callbacks have finitely
\* many steps in all, so none of them is passed over for ever.
CallbackStep ==
  \E c \in DOMAIN cbs : FinishedInsert(c) \/ FinishedCountDown(c) \/ FinishedNext(c)

FairLive ==
  /\ WF_vars(MainStep)
  /\ WF_vars(CallbackStep)

SpecLive == InitLive /\ [][Next]_vars /\ FairLive

\* Every work item has been started, every queue is empty, no scan is in
\* flight, the counter is at 0 and every callback object has been deleted.
Drained ==
  /\ \A u \in DOMAIN tablet_server_queues : tablet_server_queues[u] = << >>
  /\ { << x.tablet_id, x.ts >> : x \in DOMAIN started } = WorkSet
  /\ scans = {}
  /\ responses_ = 0
  /\ \A c \in DOMAIN cbs : cbs[c].st = "deleted"

\* The scheduler runs: ChecksumData is in its kick-off loop.
SchedulerStarted == pc = "kickoff" /\ fatal = "none"

\* C21: with scan_concurrency >= 1 and every started scan invoking Finished,
\* once the scheduler runs every queued work item is eventually started,
\* every queue drains, the outstanding counter reaches 0, no callback is left
\* waiting on a queue, and WaitFor returns (true, unless it found its time
\* expired first).
C21_Liveness ==
  (SchedulerStarted /\ opts.scan_concurrency >= 1)
    ~> (Drained /\ WaitForReturned)

\* Everything has drained after a chained scan, and WaitFor returned true.
C21_Witness ==
  /\ Drained
  /\ opts.scan_concurrency = 1
  /\ StartedOn("u1") = 2
  /\ WaitForReturned /\ ~timed_out

----------------------------------------------------------------------------
(* C22: the state lookups VerifyTablet makes *)

Missing == "Missing a tablet replica on tablet server $0"

BadState == "Bad state on TS $0: $1 Last status: $2 Data state: $3"

\* The alive replicas whose tablet server has no entry for the tablet, or
\* one in state UNKNOWN.
UnknownReplicas(tablet) ==
  { k \in AliveReplicas(tablet) :
      LET m == cluster.tablet_servers[tablet.replicas[k].ts_uuid].tablet_status_map
      IN tablet.id \notin DOMAIN m \/ m[tablet.id].state = "UNKNOWN" }

\* The alive replicas whose tablet server has an entry for the tablet in a
\* state other than RUNNING and UNKNOWN.
BadStateReplicas(tablet) ==
  { k \in AliveReplicas(tablet) :
      LET m == cluster.tablet_servers[tablet.replicas[k].ts_uuid].tablet_status_map
      IN tablet.id \in DOMAIN m /\ m[tablet.id].state \notin { "RUNNING", "UNKNOWN" } }

\* C22: VerifyTablet looks a tablet's state up only on tablet servers whose
\* fetch status is FETCHED, so the CHECK_EQ(state_, kFetched) of ReplicaState
\* never fails; the tablet_status_map().at(tablet_id) of the bad-state branch
\* is reached only with the tablet id in that server's map and never throws,
\* and a tablet id absent from the map gives UNKNOWN and the 'Missing a
\* tablet replica' warning.
C22_Lookup ==
  /\ fatal = "none"
  /\ \A k \in DOMAIN tablet_calls :
       LET call == tablet_calls[k]
           tablet == CalledTablet(call)
       IN /\ ~call.check_failed
          /\ ~call.at_threw
          /\ call.alive_count = Cardinality(AliveReplicas(tablet))
          /\ WarningCount(call, Missing) = Cardinality(UnknownReplicas(tablet))
          /\ WarningCount(call, BadState) = Cardinality(BadStateReplicas(tablet))
          /\ Len(call.infos) = Cardinality(RunningReplicas(tablet))

\* A tablet has been verified that has a replica on a server whose fetch
\* failed, one on a live server without an entry for it and one on a live
\* server that reports it FAILED.
C22_Witness ==
  \E k \in DOMAIN tablet_calls :
    LET call == tablet_calls[k]
        tablet == CalledTablet(call)
    IN /\ \E j \in DOMAIN tablet.replicas :
            /\ tablet.replicas[j].ts_uuid \in DOMAIN cluster.tablet_servers
            /\ cluster.tablet_servers[tablet.replicas[j].ts_uuid].state = "FETCH_FAILED"
       /\ \E j \in AliveReplicas(tablet) :
            tablet.id \notin DOMAIN cluster.tablet_servers[tablet.replicas[j].ts_uuid].tablet_status_map
       /\ BadStateReplicas(tablet) # {}
       /\ WarningCount(call, Missing) = 1
       /\ WarningCount(call, BadState) = 1

----------------------------------------------------------------------------
(* C23: tail chaining after the deadline *)

\* Callback c's Finished has called ReportResult in this step.
Reports(c) == cbs[c].st = "scan" /\ cbs'[c].st = "locked"

\* Callback c's Finished has gone on from ReportResult in this step.
Continues(c) == cbs[c].st = "reported" /\ cbs'[c] # cbs[c]

\* What the steps of Finished do once WaitFor has timed out: the result goes
\* into the reporter's map, and the next item of the server's queue, if any,
\* is popped and started on that server by the same callback object.
ChainsAfterTimeout ==
  \A c \in DOMAIN cbs :
    timed_out =>
      /\ Reports(c) =>
           << cbs[c].tablet_id, cbs[c].tablet_server >> \in Pairs(checksums_')
      /\ Continues(c) =>
           LET u == cbs[c].tablet_server
               queue == tablet_server_queues[u]
           IN IF queue # << >>
              THEN /\ tablet_server_queues'[u] = Tail(queue)
                   /\ \E s \in scans' \ scans :
                        s.cb = c /\ s.ts = u /\ s.tablet_id = Head(queue).tablet_id
              ELSE cbs'[c].st = "deleted" /\ scans' = scans

\* C23: tail chaining does not depend on the deadline: a Finished that
\* arrives after WaitFor has timed out, also after ChecksumData has returned
\* TimedOut, still records its result in the reporter and still starts the
\* next queued scan on its server, so scans keep being started after the
\* classification until every queue is drained.
C23_TailChaining ==
  /\ [][ChainsAfterTimeout]_vars
  /\ (timed_out /\ opts.scan_concurrency >= 1) ~> Drained

\* ChecksumData has returned TimedOut; since then a callback has reported a
\* result, which the classification did not see, and a scan chained on the
\* same tablet server is in flight.
C23_Witness ==
  /\ Classified /\ status.code = "TimedOut"
  /\ opts.scan_concurrency = 1
  /\ \E s \in scans :
       \E p \in Pairs(checksums_) \ Pairs(checksums) : p[2] = s.ts

----------------------------------------------------------------------------
(* C24: the lifecycle of the callback objects and of the reporter *)

\* The callback objects created for tablet server u, and those not deleted.
CallbacksOf(u) == { c \in DOMAIN cbs : c[1] = u }

LiveCallbacks == { c \in DOMAIN cbs : cbs[c].st # "deleted" }

\* ChecksumData's local scoped_refptr 'reporter' exists: from its
\* construction at line 430 to the return.
FrameHoldsReporter ==
  pc \in { "resolve", "kickoff", "WaitFor_check", "WaitFor_latch", "copy" }

\* The callback objects hold plain pointers: only ChecksumData's frame
\* keeps the reporter.
ReporterRefs_FrameOnly == IF FrameHoldsReporter THEN 1 ELSE 0

\* The reporter's reference count: the scoped_refptr of ChecksumData's frame
\* (line 430) and the reporter_ member of every callback object (line 369),
\* released by 'delete this'.
ReporterRefs == (IF FrameHoldsReporter THEN 1 ELSE 0) + Cardinality(LiveCallbacks)

\* A RefCountedThreadSafe object is destroyed when its count reaches 0.
ReporterAlive == ReporterRefs > 0

\* What holds of the callback objects in every state (the items placed in
\* u's queue are the pairs of the work set on u).
CallbacksSound ==
  /\ cbs # << >> =>
       LET work == WorkSet
       IN  \A u \in UUIDs(cluster) :
             Cardinality(CallbacksOf(u))
               <= Min(opts.scan_concurrency, Cardinality({ p \in work : p[2] = u }))
  /\ \A c \in DOMAIN cbs : Cardinality({ s \in scans : s.cb = c }) <= 1
  /\ \A s \in scans : s.cb \in DOMAIN cbs /\ cbs[s.cb].st = "scan"
  /\ LiveCallbacks # {} => ReporterAlive

\* What holds of every step: a deleted callback object is never touched
\* again, a callback object is deleted only by its own Finished, after
\* ReportResult, on finding its server's queue empty, and ReportResult is
\* called on a live reporter.
CallbackSteps ==
  \A c \in DOMAIN cbs :
    /\ cbs[c].st = "deleted" => (c \in DOMAIN cbs' /\ cbs'[c] = cbs[c])
    /\ (cbs[c].st # "deleted" /\ cbs'[c].st = "deleted") =>
         /\ cbs[c].st = "reported"
         /\ tablet_server_queues[cbs[c].tablet_server] = << >>
    /\ Reports(c) => ReporterAlive

====
